---- MODULE Spec2Model ----
(***************************************************************************)
(* TuCanChat (src/server.js): the per-contact conversation engine.         *)
(*                                                                         *)
(* State: the "users" table of the store (one row per contact), and the    *)
(* background tasks started by POST /webhook, each running handleIncoming. *)
(* A task holds the row it loaded (`user`, a snapshot), its locals and the *)
(* trace of the store operations and external calls it has started.        *)
(*                                                                         *)
(* handleIncoming reads the users table once (step 0) and every path       *)
(* through it writes the table at most once; everything else it does is    *)
(* local to the task. A task is therefore Load and the branch it takes,    *)
(* each with one access to the table: their interleavings are the          *)
(* interleavings of the awaits that matter to tasks sharing a row. When    *)
(* handleIncoming returns or rejects, its promise settles (Settle) before  *)
(* the event loop runs the callback of any other request.                  *)
(*                                                                         *)
(* The webhook counts its acknowledgments (`acks`). The voice catalog      *)
(* (`voiceCache`) and the calls of tts (`calls`) are followed through the  *)
(* synthesis fallback in a specification of their own, TtsSpec; the engine *)
(* sees a call of tts only as audio or as a failure. The calls of POST     *)
(* /stripe-webhook (`hooks`) and their writes of plan and free_used are    *)
(* followed in PaySpec.                                                    *)
(***************************************************************************)
EXTENDS Integers, Sequences, FiniteSets, TLC

VARIABLES users, tasks, msgs, acks, voiceCache, calls, hooks

vars == <<users, tasks, msgs, acks, voiceCache, calls, hooks>>

\* The conversation engine and the webhook; the voice catalog and the calls of
\* tts; the calls of the payment webhook.
engine == <<users, tasks, msgs, acks>>
speech == <<voiceCache, calls>>
billing == <<hooks>>

(* ------------------------------ bounds --------------------------------- *)

\* Number of webhook requests whose background tasks may be in flight together.
MaxTasks == 2
\* Number of webhook requests accepted in one behaviour.
MaxMsgs == 2
\* Number of calls of tts followed through the synthesis fallback.
MaxCalls == 1
\* Number of calls of the payment webhook.
MaxHooks == 2

Slots == 1..MaxTasks

(* ----------------------------- constants ------------------------------- *)

\* JavaScript null (a column that is NULL in the store).
NULL == "NULL"

\* The contact identifiers (req.body.From) of the model.
Contacts == {"whatsapp:+1"}

\* MENU: digit -> { name, code }.
MENU == [d \in {"1", "2", "3", "4", "5"} |->
           CASE d = "1" -> [name |-> "English",    code |-> "en"]
             [] d = "2" -> [name |-> "Spanish",    code |-> "es"]
             [] d = "3" -> [name |-> "French",     code |-> "fr"]
             [] d = "4" -> [name |-> "Portuguese", code |-> "pt"]
             [] d = "5" -> [name |-> "German",     code |-> "de"]]

DIGITS == DOMAIN MENU

\* The free allowance of the pay-wall tests (user.free_used >= 10).
FREE_ALLOWANCE == 10

(* ------------------------- strings of the model ------------------------ *)

\* The message bodies (req.body.Body) the model sends.
Bodies == {"", "1", "ES", " Reset ", " Reset Source ", "hola"}

\* String.prototype.trim on the strings of the model.
Trim(s) == CASE s = " Reset " -> "Reset"
             [] s = " Reset Source " -> "Reset Source"
             [] OTHER -> s

\* String.prototype.toLowerCase on the strings of the model.
ToLower(s) == CASE s = "Reset"   -> "reset"
                [] s = "Reset Source" -> "reset source"
                [] s = "ES"      -> "es"
                [] s = "English" -> "english"
                [] s = "Spanish" -> "spanish"
                [] s = "French"  -> "french"
                [] s = "Portuguese" -> "portuguese"
                [] s = "German"  -> "german"
                [] OTHER -> s

\* m.match(/^\d/): the leading digit of m, "" when m does not start with one.
\* (Of the strings of the model only the one-character ones start with a digit.)
LeadingDigit(m) == IF m \in {"0", "1", "2", "3", "4", "5", "6", "7", "8", "9"}
                   THEN m ELSE ""

\* String.prototype.slice(0, 2) on the language codes the providers return.
Slice2(s) == CASE s = "english" -> "en"
               [] s = "pt-PT"   -> "pt"
               [] s = "und"     -> "un"
               [] OTHER -> s

\* pickLang(txt): the code of the chosen MENU entry, NULL for undefined.
pickLang(txt) ==
  LET m  == Trim(txt)
      d  == LeadingDigit(m)
      lc == ToLower(m)
      hits == {k \in DIGITS : MENU[k].code = lc \/ ToLower(MENU[k].name) = lc}
  IN  IF d # "" /\ d \in DIGITS THEN MENU[d].code
      ELSE IF hits # {} THEN MENU[CHOOSE k \in hits : TRUE].code
      ELSE NULL


(* --------------------------- the users table --------------------------- *)

\* The steps language_step takes.
Steps == {"target", "source", "gender", "tutorial1", "tutorial2", "tutorial3", "ready"}

\* A row of the users table (phone_number is the key, users[c] the rows with
\* that key: <<>> when the contact has none, <<row>> otherwise).
Row(step, src, tgt, gender, used) ==
  [language_step |-> step, source_lang |-> src, target_lang |-> tgt,
   voice_gender |-> gender, plan |-> "FREE", free_used |-> used]

\* Mutant: the first-contact row starts at the second question.
DefaultRowSourceFirst == Row("source", NULL, NULL, NULL, 0)

\* The row the first-contact upsert writes (the other columns default to NULL).
DefaultRow == Row("target", NULL, NULL, NULL, 0)

\* upsert({phone_number, language_step:"target", plan:"FREE", free_used:0},
\*        {onConflict:["phone_number"]}): inserts the row, or overwrites these
\* columns of the row that exists.
Upsert(rows) ==
  IF rows = <<>> THEN <<DefaultRow>>
  ELSE <<[rows[1] EXCEPT !.language_step = "target", !.plan = "FREE", !.free_used = 0]>>

\* The rows the store may hold when the server process starts: the store
\* outlives the process, and each of these rows is one handleIncoming leaves
\* behind (no row; after the first question; after the second; at the last
\* tutorial stage; ready; ready after "reset source"; ready with the free
\* allowance used up; the row of a contact who sent "reset source" before
\* answering the first question and then answered the next two; and the row
\* of such a contact right after "reset source").
StoredRows ==
  { <<>>,
    <<Row("source",    NULL, "en", NULL,   0)>>,
    <<Row("gender",    "es", "en", NULL,   0)>>,
    <<Row("tutorial3", "es", "en", "MALE", 0)>>,
    <<Row("ready",     "es", "en", "MALE", 3)>>,
    <<Row("source",    NULL, "en", "MALE", 3)>>,
    <<Row("ready",     "es", "en", "MALE", FREE_ALLOWANCE)>>,
    <<Row("tutorial1", "en", NULL, "MALE", 0)>>,
    <<Row("source",    NULL, NULL, NULL,   0)>> }

(* ------------------------------- tasks --------------------------------- *)

\* A task slot that holds no request (and the locals of a task that has set
\* none; `lang` is r.lang, the language the transcription returned).
Idle ==
  [pc |-> "idle", from |-> "", text |-> "", num |-> 0, media |-> FALSE,
   user |-> <<>>, original |-> "", lang |-> "", detected |-> "", dest |-> "",
   translated |-> "", logged |-> <<>>, voiced |-> <<>>, files |-> {},
   trace |-> <<>>]

\* The webhook fields of the requests the model sends: a text message for
\* every body, a voice note, and a media count without a media URL.
Inbound ==
  {[body |-> b, num |-> 0, media |-> FALSE] : b \in Bodies}
    \cup {[body |-> "", num |-> 1, media |-> TRUE],
          [body |-> "hola", num |-> 1, media |-> FALSE]}

\* The operations on the store: supabase-js resolves them with { data, error }
\* and never rejects; every other call of a trace may throw.
StoreOps == {"select", "upsert", "upsert_lost", "update", "update_lost", "insert"}

\* Mutant: the reply flow has no try block around the synthesis.
CaughtNone == {}

\* The calls inside the try block of the reply flow: what they throw is caught.
Caught == {"tts", "upload", "send:audio", "tts_failed", "upload_failed",
           "send:audio_failed"}

\* The calls of evs that can throw out of handleIncoming (0: none does).
ThrowPoints(evs) ==
  {0} \cup {i \in 1..Len(evs) : evs[i] \notin StoreOps \cup Caught}

\* The task after the calls evs, of which call f threw (f = 0: none). The trace
\* lists the calls the task has started; "throw" follows the one that threw:
\* the rejection leaves handleIncoming and is logged by the webhook's catch.
After(tk, evs, f, nextpc) ==
  IF f = 0
  THEN [tk EXCEPT !.trace = @ \o evs, !.pc = nextpc]
  ELSE [tk EXCEPT !.trace = @ \o SubSeq(evs, 1, f) \o <<"throw">>, !.pc = "error"]

\* The tag of an update of the users table: applied, or resolved with an
\* error that the handler does not look at.
Upd(ok) == IF ok THEN "update" ELSE "update_lost"

\* Mutant: the update has no .eq("phone_number", c) filter.
UpdatedEveryRow(c, ok, row) ==
  [b \in DOMAIN users |-> IF ok /\ users[b] # <<>> THEN <<row>> ELSE users[b]]

\* users after .update(fields).eq("phone_number", c), which leaves row in the
\* place of the contact's row: applied (when the contact has a row) or not.
Updated(c, ok, row) ==
  [users EXCEPT ![c] = IF ok /\ @ # <<>> THEN <<row>> ELSE @]

(* ------------------------------ /webhook ------------------------------- *)

\* No promise of handleIncoming is waiting to settle: the event loop takes
\* the next callback (a request, or the completion of an awaited call).
Running == \A s \in Slots : tasks[s].pc \notin {"done", "error"}

\* The lowest slot that holds no task in flight.
FreeSlot(t) ==
  /\ tasks[t].pc = "idle"
  /\ \A s \in Slots : s < t => tasks[s].pc # "idle"

\* handleIncoming returns (pc "done") or rejects (pc "error") in task tk.
Finish(t, tk) == tasks' = [tasks EXCEPT ![t] = tk]

\* handleIncoming(...).catch(console.error): the promise settles, a rejection
\* is logged, and nothing refers to the task any more.
Settle(t) ==
  /\ tasks[t].pc \in {"done", "error"}
  /\ tasks' = [tasks EXCEPT ![t] = Idle]
  /\ UNCHANGED <<users, msgs, acks, speech, billing>>

\* Mutant: the acknowledgment is left to the outcome of handleIncoming.
AckDeferred(n) == n

\* res.set("Content-Type","text/xml").send("<Response></Response>"): the
\* number of acknowledgments sent, after one more.
Ack(n) == n + 1

\* app.post("/webhook") for a request without a From field: acknowledged,
\* handleIncoming is not called.
ReceiveNoSender ==
  /\ Running
  /\ msgs < MaxMsgs
  /\ msgs' = msgs + 1
  /\ acks' = Ack(acks)
  /\ UNCHANGED <<users, tasks, speech, billing>>

\* app.post("/webhook"): acknowledges and starts handleIncoming(From,
\* (Body||"").trim(), parseInt(NumMedia), MediaUrl0) in the background.
Receive(t) ==
  /\ Running
  /\ msgs < MaxMsgs
  /\ FreeSlot(t)
  /\ \E c \in DOMAIN users, m \in Inbound :
       tasks' = [tasks EXCEPT ![t] =
                   [Idle EXCEPT !.pc = "load", !.from = c, !.text = Trim(m.body),
                                !.num = m.num, !.media = m.media]]
  /\ msgs' = msgs + 1
  /\ acks' = Ack(acks)
  /\ UNCHANGED <<users, speech, billing>>

(* --------------------------- handleIncoming ---------------------------- *)

\* const lower = text.trim().toLowerCase();
lower(tk) == ToLower(Trim(tk.text))

\* Mutant: only a session without a plan counts as free.
isFreeNullOnly(u) == u.plan = NULL

\* const isFree = !user.plan || user.plan === "FREE";
isFree(u) == u.plan = NULL \/ u.plan = "FREE"

\* 0. fetch the user: select("*").eq("phone_number", from).single(); data is
\* null when there is no row and when the select fails.
Load(t) ==
  /\ Running
  /\ tasks[t].pc = "load"
  /\ \E ok \in BOOLEAN :
       tasks' = [tasks EXCEPT ![t] =
                   [@ EXCEPT !.user = IF ok THEN users[tasks[t].from] ELSE <<>>,
                             !.trace = @ \o <<"select">>, !.pc = "route"]]
  /\ UNCHANGED <<users, msgs, acks, speech, billing>>

\* Mutant: the guard forgets target_lang.
IncompleteIgnoresTarget(u) == u.source_lang = NULL \/ u.voice_gender = NULL

\* if (!user.source_lang || !user.target_lang || !user.voice_gender)
Incomplete(u) == u.source_lang = NULL \/ u.target_lang = NULL \/ u.voice_gender = NULL

\* The branch of handleIncoming a loaded task takes: its tests in their order.
Route(tk) ==
  LET u == tk.user[1]
      walled == isFree(u) /\ u.free_used >= FREE_ALLOWANCE /\ u.language_step = "ready"
  IN  IF tk.user = <<>> THEN "create"
      ELSE IF lower(tk) = "reset source" THEN "reset_source"
      ELSE IF lower(tk) \in {"1", "2", "3"} /\ walled THEN "pay_button"
      ELSE IF lower(tk) \in {"reset", "change language"} THEN "reset"
      ELSE IF walled THEN "paywall"
      ELSE IF u.language_step = "target" THEN "target"
      ELSE IF u.language_step = "source" THEN "source"
      ELSE IF u.language_step = "gender" THEN "gender"
      ELSE IF Incomplete(u) THEN "incomplete"
      ELSE "pipeline"

\* The event loop resumes task t, which has loaded its row, in branch.
At(t, branch) == tasks[t].pc = "route" /\ Running /\ Route(tasks[t]) = branch

\* if (!user): upsert the default row, send WELCOME_MSG.
Create(t) ==
  /\ At(t, "create")
  /\ \E ok \in BOOLEAN :
       LET evs == <<IF ok THEN "upsert" ELSE "upsert_lost", "send:welcome">>
       IN  \E f \in ThrowPoints(evs) :
             /\ users' = [users EXCEPT ![tasks[t].from] = IF ok THEN Upsert(@) ELSE @]
             /\ Finish(t, After(tasks[t], evs, f, "done"))
  /\ UNCHANGED <<msgs, acks, speech, billing>>

\* Mutant: the full reset keeps the voice preference.
ResetRowKeepsVoice(r) ==
  [r EXCEPT !.language_step = "target", !.source_lang = NULL, !.target_lang = NULL,
            !.free_used = 0]

\* Mutant: the full reset keeps the usage counter.
ResetRowKeepsUsage(r) ==
  [r EXCEPT !.language_step = "target", !.source_lang = NULL, !.target_lang = NULL,
            !.voice_gender = NULL]

\* The columns the full reset writes.
ResetRow(r) ==
  [r EXCEPT !.language_step = "target", !.source_lang = NULL, !.target_lang = NULL,
            !.voice_gender = NULL, !.free_used = 0]

\* 3. full reset: update the row, send WELCOME_MSG.
Reset(t) ==
  /\ At(t, "reset")
  /\ \E ok \in BOOLEAN :
       \E f \in ThrowPoints(<<"update", "send:welcome">>) :
         /\ users' = Updated(tasks[t].from, ok, ResetRow(users[tasks[t].from][1]))
         /\ Finish(t, After(tasks[t], <<Upd(ok), "send:welcome">>, f, "done"))
  /\ UNCHANGED <<msgs, acks, speech, billing>>

\* Mutant: "reset source" also clears the target language and the counter.
ResetSourceRowClearsTarget(r) ==
  [r EXCEPT !.source_lang = NULL, !.language_step = "source", !.target_lang = NULL,
            !.free_used = 0]

\* The columns "reset source" writes (target_lang, voice_gender and
\* free_used are kept).
ResetSourceRow(r) == [r EXCEPT !.source_lang = NULL, !.language_step = "source"]

\* 1. quick-reset of the language the contact receives messages in.
ResetSource(t) ==
  /\ At(t, "reset_source")
  /\ \E ok \in BOOLEAN :
       LET evs == <<Upd(ok), "translate:prompt", "translate:prompt", "send:source_menu">>
       IN  \E f \in ThrowPoints(evs) :
             /\ users' = Updated(tasks[t].from, ok, ResetSourceRow(users[tasks[t].from][1]))
             /\ Finish(t, After(tasks[t], evs, f, "done"))
  /\ UNCHANGED <<msgs, acks, speech, billing>>

\* 2. pay-wall button replies: a checkout link, or the payment-error reply
\* when checkoutUrl or the send of the link throws.
PayButton(t) ==
  /\ At(t, "pay_button")
  /\ \E evs \in {<<"checkout", "send:pay_link">>, <<"send:pay_error">>,
                 <<"checkout", "send:pay_error">>} :
       \E f \in (IF evs[Len(evs)] = "send:pay_link" THEN {0} ELSE {0, Len(evs)}) :
         Finish(t, After(tasks[t], evs, f, "done"))
  /\ UNCHANGED <<users, msgs, acks, speech, billing>>

\* 4. free-tier gate for normal messages.
Paywall(t) ==
  /\ At(t, "paywall")
  /\ \E f \in ThrowPoints(<<"send:paywall">>) :
       Finish(t, After(tasks[t], <<"send:paywall">>, f, "done"))
  /\ UNCHANGED <<users, msgs, acks, speech, billing>>

\* 4a. pick TARGET language (the first question).
PickTarget(t) ==
  /\ At(t, "target")
  /\ LET choice == pickLang(tasks[t].text)
         F(r) == [r EXCEPT !.target_lang = choice, !.language_step = "source"]
     IN  IF choice # NULL
         THEN \E ok \in BOOLEAN :
                LET evs == <<Upd(ok), "translate:prompt", "translate:prompt",
                             "send:source_menu">>
                IN  \E f \in ThrowPoints(evs) :
                      /\ users' = Updated(tasks[t].from, ok, F(users[tasks[t].from][1]))
                      /\ Finish(t, After(tasks[t], evs, f, "done"))
         ELSE /\ \E f \in ThrowPoints(<<"send:reply_1_5">>) :
                   Finish(t, After(tasks[t], <<"send:reply_1_5">>, f, "done"))
              /\ UNCHANGED users
  /\ UNCHANGED <<msgs, acks, speech, billing>>

\* const alreadySetup = user.voice_gender && user.target_lang;
alreadySetup(u) == u.voice_gender # NULL /\ u.target_lang # NULL

\* Mutant: the second question does not compare the choice with target_lang.
SourceReplyNoDifferCheck(u, choice) ==
  IF choice = NULL THEN "send:menu_reply_1_5" ELSE ""

\* The reply of the second question to choice, "" when the choice is stored.
SourceReply(u, choice) ==
  IF choice = NULL THEN "send:menu_reply_1_5"
  ELSE IF choice = u.target_lang THEN "send:menu_must_differ"
  ELSE ""

\* 4b. pick SOURCE language (the second question).
PickSource(t) ==
  /\ At(t, "source")
  /\ LET u      == tasks[t].user[1]
         choice == pickLang(tasks[t].text)
         F(r)   == [r EXCEPT !.source_lang = choice,
                             !.language_step = IF alreadySetup(u) THEN "ready" ELSE "gender"]
     IN  IF SourceReply(u, choice) # ""
         THEN /\ \E f \in ThrowPoints(<<SourceReply(u, choice)>>) :
                   Finish(t, After(tasks[t], <<SourceReply(u, choice)>>, f, "done"))
              /\ UNCHANGED users
         ELSE \E ok \in BOOLEAN :
                LET evs == IF alreadySetup(u)
                           THEN <<Upd(ok), "translate:prompt", "send:change_done",
                                  "translate:prompt", "send:reset_tips",
                                  "translate:prompt", "send:ready">>
                           ELSE <<Upd(ok), "translate:prompt", "send:gender_prompt">>
                IN  \E f \in ThrowPoints(evs) :
                      /\ users' = Updated(tasks[t].from, ok, F(users[tasks[t].from][1]))
                      /\ Finish(t, After(tasks[t], evs, f, "done"))
  /\ UNCHANGED <<msgs, acks, speech, billing>>

\* /male/i.test(s) and /female/i.test(s) on the strings of the model.
HasMale(s)   == s \in {"male", "female"}
HasFemale(s) == s = "female"

\* Mutant: an answer that is no option counts as "MALE".
pickGenderLenient(lc) == IF lc = "2" \/ HasFemale(lc) THEN "FEMALE" ELSE "MALE"

\* let g = null; if (/^1$/ or /male/i) g = "MALE"; if (/^2$/ or /female/i) g = "FEMALE";
pickGender(lc) ==
  IF lc = "2" \/ HasFemale(lc) THEN "FEMALE"
  ELSE IF lc = "1" \/ HasMale(lc) THEN "MALE"
  ELSE NULL

\* 4c. pick voice gender.
PickGender(t) ==
  /\ At(t, "gender")
  /\ LET g    == pickGender(lower(tasks[t]))
         F(r) == [r EXCEPT !.voice_gender = g, !.language_step = "tutorial1"]
     IN  IF g # NULL
         THEN \E ok \in BOOLEAN :
                LET evs == <<Upd(ok), "translate:prompt", "send:intro",
                             "translate:prompt", "send:reset_tips",
                             "translate:prompt", "send:first_action">>
                IN  \E f \in ThrowPoints(evs) :
                      /\ users' = Updated(tasks[t].from, ok, F(users[tasks[t].from][1]))
                      /\ Finish(t, After(tasks[t], evs, f, "done"))
         ELSE /\ \E f \in ThrowPoints(<<"translate:prompt", "send:gender_retry">>) :
                   Finish(t, After(tasks[t], <<"translate:prompt", "send:gender_retry">>, f, "done"))
              /\ UNCHANGED users
  /\ UNCHANGED <<msgs, acks, speech, billing>>

\* fallback if setup not finished.
SetupIncomplete(t) ==
  /\ At(t, "incomplete")
  /\ \E f \in ThrowPoints(<<"send:setup_incomplete">>) :
       Finish(t, After(tasks[t], <<"send:setup_incomplete">>, f, "done"))
  /\ UNCHANGED <<users, msgs, acks, speech, billing>>

(* ------------------------ the translation pipeline --------------------- *)

\* What the providers return: the transcript and the language of a
\* transcription (r.text, r.language || ""), the language of a detection, and
\* the trimmed content of a translation (empty when the completion is empty
\* or white space).
Transcripts  == {"", "hello"}
WhisperLangs == {"", "english"}
DetectLangs  == {"", "und", "en", "es", "pt-PT"}
Translations == {"", "translated"}

\* Mutant: whisper tries the secondary model a second time.
WhisperRetriesTwice ==
  {<<"whisper">>, <<"whisper_failed", "whisper-1">>,
   <<"whisper_failed", "whisper-1", "whisper-1">>}

\* The transcription requests of a call of whisper(wav) that returns: the
\* primary model ("whisper-large-v3") answers, or it fails ("whisper_failed",
\* caught inside whisper) and the secondary model ("whisper-1") answers.
WhisperReturns == {<<"whisper">>, <<"whisper_failed", "whisper-1">>}

\* The requests of a call of whisper(wav) that throws: both models failed.
WhisperThrows == <<"whisper_failed", "whisper-1">>

\* The traces of the audio branch that end in a throw: the download (a network
\* failure), the conversion (before the try), the transcription and the
\* detection (inside it, so the finally clause unlinks the files first). A
\* response with a non-2xx status ("fetch:non2xx") resolves like any other:
\* its body, which is no audio, is written to the raw file and the conversion
\* of it rejects.
AudioFailures ==
  { <<"fetch", "throw">>,
    <<"fetch", "writeFile", "toWav", "throw">>,
    <<"fetch:non2xx", "writeFile", "toWav", "throw">>,
    <<"fetch", "writeFile", "toWav">> \o WhisperThrows \o <<"unlink", "throw">> }
    \cup { <<"fetch", "writeFile", "toWav">> \o w \o <<"detect", "unlink", "throw">>
              : w \in WhisperReturns }

\* The temporary files of a message on disk after the calls of tr:
\* fs.writeFileSync(raw, buf) creates the raw download, toWav(raw, wav) the
\* WAV, and the finally clause unlinks both.
OnDisk(tr) ==
  LET Since(e) == \E i \in 1..Len(tr) :
                    tr[i] = e /\ \A j \in (i + 1)..Len(tr) : tr[j] # "unlink"
  IN  (IF Since("writeFile") THEN {"raw"} ELSE {})
        \cup (IF Since("toWav") THEN {"wav"} ELSE {})

\* What can be on disk after the calls of tr, the last of which threw: a
\* conversion that fails may or may not have created its output file.
LeftBy(tr) ==
  IF Len(tr) > 1 /\ tr[Len(tr) - 1] = "toWav"
  THEN {OnDisk(tr), OnDisk(tr) \ {"wav"}}
  ELSE {OnDisk(tr)}

\* Mutant: the handler does not test whether there is anything to translate.
NoOriginalNever(txt) == FALSE

\* if (!original)
NoOriginal(txt) == txt = ""

\* Mutant: the language of the transcription is taken as it is, empty or not.
NeedsDetectNever(lang) == FALSE

\* detected = r.lang || (await detectLang(original)).slice(0, 2): the
\* detection is called when the transcription gave no language.
NeedsDetect(lang) == lang = ""

\* transcribe / detect language: the task with original and detected set
\* (pc "translate"), or after it asked for text or a voice note because there
\* is nothing to translate, or after a call threw.
Ingest(tk) ==
  LET Got(txt, rlang, lang, evs) ==
        LET got == [tk EXCEPT !.original = txt, !.lang = rlang, !.detected = lang,
                              !.files = OnDisk(evs)]
        IN  IF NoOriginal(txt)
            THEN {After(got, evs \o <<"send:text_or_voice">>, f, "done")
                    : f \in {0, Len(evs) + 1}}
            ELSE {After(got, evs, 0, "translate")}
      Failed(tr) == {[tk EXCEPT !.trace = @ \o tr, !.pc = "error", !.files = fs]
                       : fs \in LeftBy(tr)}
  IN  IF tk.num > 0 /\ tk.media
      THEN UNION {IF ~NeedsDetect(Slice2(x[2]))
                  THEN Got(x[1], Slice2(x[2]), Slice2(x[2]),
                           <<"fetch", "writeFile", "toWav">> \o x[4] \o <<"unlink">>)
                  ELSE Got(x[1], Slice2(x[2]), Slice2(x[3]),
                           <<"fetch", "writeFile", "toWav">> \o x[4] \o <<"detect", "unlink">>)
                  : x \in Transcripts \X WhisperLangs \X DetectLangs \X WhisperReturns}
             \cup UNION {Failed(tr) : tr \in AudioFailures}
      ELSE IF tk.text # ""
      THEN UNION {Got(tk.text, "", Slice2(dl), <<"detect">>) : dl \in DetectLangs}
             \cup Failed(<<"detect", "throw">>)
      ELSE Got("", "", "", <<>>)

\* Mutant: no auto-flip, every message is translated to target_lang.
ResolveNeverFlips(detected, u) == u.target_lang

\* Mutant: a language that is neither stored one goes to source_lang.
ResolveThirdToSource(detected, u) ==
  IF detected = "" THEN u.target_lang
  ELSE IF detected = u.target_lang THEN u.source_lang
  ELSE IF detected = u.source_lang THEN u.target_lang
  ELSE u.source_lang

\* Mutant: an empty or undetermined detection goes to source_lang.
ResolveUnknownToSource(detected, u) ==
  IF detected \in {"", "un"} \/ detected = u.target_lang
  THEN u.source_lang ELSE u.target_lang

\* Mutant: a message not in target_lang is translated to the detected language.
ResolveToDetected(detected, u) ==
  IF detected = u.target_lang THEN u.source_lang ELSE detected

\* const dest = detected === user.target_lang ? user.source_lang : user.target_lang;
Resolve(detected, u) ==
  IF detected = u.target_lang THEN u.source_lang ELSE u.target_lang

\* const translated = await translate(original, dest): the task with dest and
\* translated set (pc "usage"), or after translate threw.
Translate(tk) ==
  LET dest == Resolve(tk.detected, tk.user[1])
  IN  {After([tk EXCEPT !.dest = dest, !.translated = tr], <<"translate:user">>, 0, "usage")
         : tr \in Translations}
        \cup {After([tk EXCEPT !.dest = dest], <<"translate:user">>, 1, "error")}

\* if (isFree && user.language_step === "ready") the usage is counted.
Counted(u) == isFree(u) /\ u.language_step = "ready"

\* Mutant: the usage is counted and no record is inserted.
UsageNoRecord(tk, ok) ==
  After(tk, IF Counted(tk.user[1]) THEN <<Upd(ok)>> ELSE <<>>, 0, "reply")

\* usage + log: update({ free_used: user.free_used + 1 }), applied or not,
\* then logRow (the record the task inserted is kept in its `logged`).
Usage(tk, ok) ==
  LET rec == [phone_number |-> tk.from, original_text |-> tk.original,
              translated_text |-> tk.translated, language_from |-> tk.detected,
              language_to |-> tk.dest]
  IN  After([tk EXCEPT !.logged = <<rec>>],
            (IF Counted(tk.user[1]) THEN <<Upd(ok)>> ELSE <<>>) \o <<"insert">>,
            0, "reply")

\* Mutant: the first tutorial stage advances straight to READY.
tutorialFollowSkips(u) ==
  CASE u.language_step \in {"tutorial1", "tutorial3"} -> "ready"
    [] u.language_step = "tutorial2" -> "tutorial3"
    [] OTHER -> ""

\* The tutorial follow-ups: the step a tutorial stage advances to, "" when the
\* loaded step is no tutorial stage.
tutorialFollow(u) ==
  CASE u.language_step = "tutorial1" -> "tutorial2"
    [] u.language_step = "tutorial2" -> "tutorial3"
    [] u.language_step = "tutorial3" -> "ready"
    [] OTHER -> ""

\* What the try block of the voice reply does: the audio is sent, or tts, the
\* upload or the send throws and the catch logs it.
AudioReplies ==
  { <<"tts", "upload", "send:audio">>, <<"tts_failed">>, <<"tts", "upload_failed">>,
    <<"tts", "upload", "send:audio_failed">> }

\* Mutant: the audio is synthesized in target_lang.
SpeechInTarget(tk) ==
  [text |-> tk.translated, lang |-> tk.user[1].target_lang,
   gender |-> tk.user[1].voice_gender]

\* The arguments of tts(translated, dest, user.voice_gender).
Speech(tk) ==
  [text |-> tk.translated, lang |-> tk.dest, gender |-> tk.user[1].voice_gender]

\* reply flow, then the tutorial follow-up and the update of its step,
\* applied or not: the task after it returned or after a call threw (with
\* the arguments of its tts call in `voiced`, when it got to it).
Reply(tk, ok) ==
  LET next == tutorialFollow(tk.user[1])
  IN  UNION {LET evs == (IF tk.num = 0 THEN <<"send:translation">>
                         ELSE <<"send:transcript", "send:translation">> \o audio)
                        \o (IF next # ""
                            THEN <<"translate:prompt", "send:tutorial", Upd(ok)>>
                            ELSE <<>>)
             IN  {After([tk EXCEPT !.voiced = IF tk.num # 0 /\ (f = 0 \/ f > 2)
                                               THEN <<Speech(tk)>> ELSE <<>>],
                        evs, f, "done") : f \in ThrowPoints(evs)}
             : audio \in (IF tk.num = 0 THEN {<<>>} ELSE AudioReplies)}

\* 5-9. the pipeline of a message that passed the setup guard: ingest,
\* translate, usage + log, reply, tutorial follow-up. Its one write of the
\* users table is the usage counter of a READY session on the free plan, or
\* the next step of a tutorial stage when no call before it threw; both write
\* values computed from the row the task loaded.
Pipeline(t) ==
  /\ At(t, "pipeline")
  /\ LET c    == tasks[t].from
         u    == tasks[t].user[1]
         next == tutorialFollow(u)
     IN  \E a \in Ingest(tasks[t]) :
           IF a.pc # "translate"
           THEN Finish(t, a) /\ UNCHANGED users
           ELSE \E b \in Translate(a) :
                  IF b.pc # "usage"
                  THEN Finish(t, b) /\ UNCHANGED users
                  ELSE \E ok \in (IF Counted(u) \/ next # "" THEN BOOLEAN ELSE {TRUE}) :
                         \E d \in Reply(Usage(b, ok), ok) :
                           /\ users' =
                                IF Counted(u)
                                THEN Updated(c, ok, [users[c][1] EXCEPT
                                                       !.free_used = u.free_used + 1])
                                ELSE IF next # "" /\ d.pc = "done"
                                THEN Updated(c, ok, [users[c][1] EXCEPT
                                                       !.language_step = next])
                                ELSE users
                           /\ Finish(t, d)
  /\ UNCHANGED <<msgs, acks, speech, billing>>

(* --------------------------- Google TTS voices -------------------------- *)

\* The calls of tts the model follows (caller 0 is the preload at start-up).
TtsCalls == 1..MaxCalls
Callers  == 0..MaxCalls

\* The destination languages and voice preferences tts is called with.
TtsLangs == {"es", "en", "pt"}
Genders  == {"MALE", "FEMALE"}

\* A voice of the catalog (GET /v1/voices).
Voice(name, gender, codes) ==
  [name |-> name, ssmlGender |-> gender, languageCodes |-> codes]

\* The catalogs the provider answers with, in catalog order: voices of three
\* tiers for es and en (for en a British voice of the first tier and American
\* ones of the third) and a voice of a language with a three-letter code, a
\* voice of no known tier, and an empty catalog.
Catalogs ==
  { << Voice("es-ES-Standard-B", "MALE",   <<"es-ES">>),
       Voice("es-ES-Neural2-A",  "FEMALE", <<"es-ES">>),
       Voice("es-US-WaveNet-B",  "MALE",   <<"es-US">>),
       Voice("en-GB-Neural2-A",  "FEMALE", <<"en-GB">>),
       Voice("en-US-Standard-A", "MALE",   <<"en-US">>),
       Voice("en-US-Standard-C", "FEMALE", <<"en-US">>),
       Voice("fil-PH-Standard-A", "FEMALE", <<"fil-PH">>) >>,
    << Voice("es-ES-Chirp-F",    "FEMALE", <<"es-ES">>) >>,
    << >> }

\* name.includes(part), on the names of the model.
Includes(name, part) ==
  CASE part = "Neural2"  -> name \in {"es-ES-Neural2-A", "en-GB-Neural2-A"}
    [] part = "WaveNet"  -> name \in {"es-US-WaveNet-B"}
    [] part = "Standard" -> name \in {"es-ES-Standard-B", "en-US-Standard-A",
                                      "en-US-Standard-C", "fil-PH-Standard-A"}
    [] OTHER -> FALSE

\* name.startsWith("en-US")
StartsWithEnUS(name) == name \in {"en-US-Standard-A", "en-US-Standard-C"}

\* Mutant: the voices are indexed under their full locale codes.
SplitFirstFull(full) == full

\* full.split("-",1)[0]: the key a locale code is indexed under.
SplitFirst(full) ==
  CASE full \in {"es-ES", "es-US"} -> "es"
    [] full \in {"en-GB", "en-US"} -> "en"
    [] full = "fil-PH" -> "fil"
    [] OTHER -> full

\* name.split("-",2).join("-"): the languageCode sent with a voice name.
SplitJoin2(name) ==
  CASE name \in {"es-ES-Standard-B", "es-ES-Neural2-A", "es-ES-Chirp-F"} -> "es-ES"
    [] name = "es-US-WaveNet-B"  -> "es-US"
    [] name = "en-GB-Neural2-A"  -> "en-GB"
    [] name \in {"en-US-Standard-A", "en-US-Standard-C"} -> "en-US"
    [] name = "fil-PH-Standard-A" -> "fil-PH"
    [] OTHER -> name

\* The (key, voice) pairs voices.reduce visits, in its order.
RECURSIVE Entries(_)
Entries(voices) ==
  IF voices = <<>> THEN <<>>
  ELSE LET v == Head(voices)
       IN  [i \in 1..Len(v.languageCodes) |->
              [code |-> SplitFirst(v.languageCodes[i]), voice |-> v]]
             \o Entries(Tail(voices))

\* voiceCache = voices.reduce(...): every voice pushed under the key of each
\* of its locale codes.
Reduce(voices) ==
  LET es == Entries(voices)
  IN  [k \in {es[i].code : i \in 1..Len(es)} |->
         LET sel == SelectSeq(es, LAMBDA e : e.code = k)
         IN  [i \in 1..Len(sel) |-> sel[i].voice]]

\* voiceCache[lang] || []
Listed(cache, lang) == IF lang \in DOMAIN cache THEN cache[lang] ELSE <<>>

\* The fixed default voice.
DefaultVoice == "en-US-Standard-A"

\* Mutant: the standard tier is preferred.
pickVoiceStandardFirst(cache, lang, gender) ==
  LET all      == IF lang \in DOMAIN cache THEN cache[lang] ELSE <<>>
      byGender == SelectSeq(all, LAMBDA v : v.ssmlGender = gender)
      list     == IF byGender = <<>> THEN all ELSE byGender
      Find(part) == SelectSeq(list, LAMBDA v :
                      part = "Standard" /\ v.name \in {"es-ES-Standard-B", "en-US-Standard-A",
                                                        "en-US-Standard-C"})
  IN  IF Find("Standard") # <<>> THEN Head(Find("Standard")).name
      ELSE IF list # <<>> THEN Head(list).name
      ELSE "en-US-Standard-A"

\* pickVoice(lang, gender) once the catalog is loaded.
pickVoice(cache, lang, gender) ==
  LET all      == Listed(cache, lang)
      byGender == SelectSeq(all, LAMBDA v : v.ssmlGender = gender)
      list1    == IF byGender = <<>> THEN all ELSE byGender
      us       == SelectSeq(list1, LAMBDA v : StartsWithEnUS(v.name))
      list     == IF lang = "en" /\ us # <<>> THEN us ELSE list1
      Find(part) == SelectSeq(list, LAMBDA v : Includes(v.name, part))
  IN  IF Find("Neural2") # <<>> THEN Head(Find("Neural2")).name
      ELSE IF Find("WaveNet") # <<>> THEN Head(Find("WaveNet")).name
      ELSE IF Find("Standard") # <<>> THEN Head(Find("Standard")).name
      ELSE DefaultVoice

\* The voice field of the request synth(name) posts.
Request(name) == [languageCode |-> SplitJoin2(name), name |-> name]

\* A caller that has not started, and the preload at start-up, which is
\* inside loadVoices waiting for the catalog.
NoCall  == [pc |-> "idle", lang |-> "", gender |-> "", attempts |-> <<>>]
Preload == [NoCall EXCEPT !.pc = "loadVoices"]

\* tts(text, lang, gender) is called: pickVoice awaits loadVoices, which
\* returns at once when the cache is set and else fetches the catalog.
tts(k) ==
  /\ k \in TtsCalls
  /\ calls[k].pc = "idle"
  /\ \E lang \in TtsLangs, gender \in Genders :
       calls' = [calls EXCEPT ![k] =
                   IF voiceCache # <<>>
                   THEN [pc |-> "synth", lang |-> lang, gender |-> gender,
                         attempts |-> <<Request(pickVoice(voiceCache[1], lang, gender))>>]
                   ELSE [pc |-> "loadVoices", lang |-> lang, gender |-> gender,
                         attempts |-> <<>>]]
  /\ UNCHANGED <<voiceCache, engine, billing>>

\* The catalog fetch of caller k ends: it throws (network error, or a response
\* without voices), or the cache is set from the catalog and pickVoice goes
\* on to the first synth. The preload swallows what loadVoices throws.
loadVoices(k) ==
  /\ calls[k].pc = "loadVoices"
  /\ \/ /\ calls' = [calls EXCEPT ![k].pc = IF k = 0 THEN "returned" ELSE "raised"]
        /\ UNCHANGED voiceCache
     \/ \E voices \in Catalogs :
          /\ voiceCache' = <<Reduce(voices)>>
          /\ calls' = [calls EXCEPT ![k] =
                         IF k = 0 THEN [@ EXCEPT !.pc = "returned"]
                         ELSE [@ EXCEPT !.pc = "synth",
                                        !.attempts = <<Request(pickVoice(Reduce(voices),
                                                                         calls[k].lang,
                                                                         calls[k].gender))>>]]
  /\ UNCHANGED <<engine, billing>>

\* What a synthesize request ends with: audio, a response without
\* audioContent (an error response), or a thrown network error.
SynthOutcomes == {"audio", "empty", "throw"}

\* The synth call of caller k ends: tts returns the audio, goes on to the next
\* name (the language code, then the fixed default voice), or throws.
synth(k) ==
  /\ calls[k].pc = "synth"
  /\ \E out \in SynthOutcomes :
       LET c == calls[k]
           n == Len(c.attempts)
       IN  calls' = [calls EXCEPT ![k] =
                       IF out = "audio" THEN [c EXCEPT !.pc = "returned"]
                       ELSE IF out = "throw" THEN [c EXCEPT !.pc = "raised"]
                       ELSE IF n = 1 THEN [c EXCEPT !.attempts = Append(@, Request(c.lang))]
                       ELSE IF n = 2 THEN [c EXCEPT !.attempts = Append(@, Request(DefaultVoice))]
                       ELSE [c EXCEPT !.pc = "raised"]]
  /\ UNCHANGED <<voiceCache, engine, billing>>

(* ---------------------------- /stripe-webhook --------------------------- *)

Hooks == 1..MaxHooks

\* event.type: the two types the handler acts on, and any other.
EventTypes ==
  {"checkout.session.completed", "customer.subscription.deleted", "invoice.paid"}

\* s.metadata.tier of a checkout session.
Tiers == {"monthly", "annual", "life"}

\* const plan = tier === "monthly" ? "MONTHLY" : tier === "annual" ? "ANNUAL" : "LIFETIME"
plan(tier) ==
  CASE tier = "monthly" -> "MONTHLY"
    [] tier = "annual"  -> "ANNUAL"
    [] OTHER            -> "LIFETIME"

\* The columns of the session the upgrade writes (the Stripe identifiers of
\* a row are not part of the model's row).
updateFields(r, tier) == [r EXCEPT !.plan = plan(tier), !.free_used = 0]

\* The contacts whose row a lookup by a Stripe identifier (stripe_cust_id, the
\* uuid of the session or customer metadata, stripe_sub_id) may match: the
\* request decides it; NULL when it matches no row.
Matches == {c \in DOMAIN users : users[c] # <<>>} \cup {NULL}

\* 2-D: the row whose phone_number is customer_details.name.
ByName(name) ==
  IF name \in DOMAIN users /\ users[name] # <<>> THEN name ELSE NULL

\* A call of the payment webhook that has not arrived.
NoHook ==
  [pc |-> "idle", signed |-> FALSE, type |-> NULL, tier |-> NULL, name |-> NULL,
   status |-> 0]

\* Mutant: constructEvent returns the event whatever the signature.
constructEventUnchecked(signed) == TRUE

\* stripe.webhooks.constructEvent(body, signature, secret) returns the event
\* when the signature is the one of the body, and throws otherwise.
constructEvent(signed) == signed

\* 1. verify signature: a request arrives; res.sendStatus(400) when
\* constructEvent throws.
verify(k) ==
  /\ hooks[k].pc = "idle"
  /\ \E signed \in BOOLEAN, type \in EventTypes :
       \E tier \in (IF type = "checkout.session.completed" THEN Tiers ELSE {NULL}),
          name \in (IF type = "checkout.session.completed"
                    THEN DOMAIN users \cup {NULL} ELSE {NULL}) :
         hooks' = [hooks EXCEPT ![k] =
                     IF constructEvent(signed)
                     THEN [pc |-> "verified", signed |-> signed, type |-> type,
                           tier |-> tier, name |-> name, status |-> 0]
                     ELSE [NoHook EXCEPT !.pc = "done", !.status = 400]]
  /\ UNCHANGED <<engine, speech>>

\* checkout complete -> upgrade: the lookups 2-A to 2-C by Stripe identifiers
\* (byId: the row the first of them that matches returns), then 2-D by
\* phone_number; the first lookup that matches a row has updated it. A lookup
\* that resolves with an error leaves data null, and !data.length throws: the
\* handler rejects without a response (status 0). No row: 500. Else the
\* acknowledgment res.json({ received: true }).
checkoutCompleted(k) ==
  /\ hooks[k].pc = "verified"
  /\ hooks[k].type = "checkout.session.completed"
  /\ \E byId \in Matches, failed \in BOOLEAN :
       LET hit == IF byId # NULL THEN byId ELSE ByName(hooks[k].name)
       IN  IF failed
           THEN /\ hooks' = [hooks EXCEPT ![k].pc = "rejected"]
                /\ UNCHANGED users
           ELSE IF hit = NULL
           THEN /\ hooks' = [hooks EXCEPT ![k].pc = "done", ![k].status = 500]
                /\ UNCHANGED users
           ELSE /\ hooks' = [hooks EXCEPT ![k].pc = "done", ![k].status = 200]
                /\ users' = [users EXCEPT
                               ![hit] = <<updateFields(@[1], hooks[k].tier)>>]
  /\ UNCHANGED <<tasks, msgs, acks, speech>>

\* subscription cancelled -> downgrade: update({ plan: "FREE" }) of the row
\* with the subscription's id.
subscriptionDeleted(k) ==
  /\ hooks[k].pc = "verified"
  /\ hooks[k].type = "customer.subscription.deleted"
  /\ \E hit \in Matches, failed \in BOOLEAN :
       IF failed
       THEN /\ hooks' = [hooks EXCEPT ![k].pc = "rejected"]
            /\ UNCHANGED users
       ELSE IF hit = NULL
       THEN /\ hooks' = [hooks EXCEPT ![k].pc = "done", ![k].status = 500]
            /\ UNCHANGED users
       ELSE /\ hooks' = [hooks EXCEPT ![k].pc = "done", ![k].status = 200]
            /\ users' = [users EXCEPT ![hit] = <<[@[1] EXCEPT !.plan = "FREE"]>>]
  /\ UNCHANGED <<tasks, msgs, acks, speech>>

\* 4. any other event: res.json({ received: true }).
received(k) ==
  /\ hooks[k].pc = "verified"
  /\ hooks[k].type \notin {"checkout.session.completed", "customer.subscription.deleted"}
  /\ hooks' = [hooks EXCEPT ![k].pc = "done", ![k].status = 200]
  /\ UNCHANGED <<engine, speech>>

(* ------------------------------ the engine ------------------------------ *)

Init ==
  /\ users \in [Contacts -> StoredRows]
  /\ tasks = [t \in Slots |-> Idle]
  /\ msgs = 0
  /\ acks = 0
  /\ voiceCache = <<>>
  /\ calls = [k \in Callers |-> IF k = 0 THEN Preload ELSE NoCall]
  /\ hooks = [k \in Hooks |-> NoHook]

Next ==
  \/ ReceiveNoSender
  \/ \E t \in Slots :
       \/ Receive(t)
       \/ Load(t)
       \/ Create(t)
       \/ ResetSource(t)
       \/ PayButton(t)
       \/ Reset(t)
       \/ Paywall(t)
       \/ PickTarget(t)
       \/ PickSource(t)
       \/ PickGender(t)
       \/ SetupIncomplete(t)
       \/ Pipeline(t)
       \/ Settle(t)

Spec == Init /\ [][Next]_vars

(* ======================= properties of the engine ====================== *)

\* e is one of the calls the task has started.
Called(tk, e) == \E i \in 1..Len(tk.trace) : tk.trace[i] = e

\* The task has computed a destination language (it got to translate()).
Resolved(tk) == Called(tk, "translate:user")

\* The row the task loaded.
Loaded(tk) == tk.user[1]

(* C1: in every reachable state, a session with language_step = "ready" has   *)
(* non-null source_lang and target_lang that differ, also when tasks of the   *)
(* same contact overlap.                                                      *)
C1_ReadyHasLanguages ==
  \A c \in Contacts :
    (users[c] # <<>> /\ users[c][1].language_step = "ready")
      => /\ users[c][1].source_lang # NULL
         /\ users[c][1].target_lang # NULL
         /\ users[c][1].source_lang # users[c][1].target_lang

(* C2: for a loaded session with distinct non-null languages, the destination *)
(* is source_lang when the detected language is target_lang, and target_lang  *)
(* when the detected language is source_lang.                                 *)
C2_AutoFlip ==
  \A t \in Slots :
    LET tk == tasks[t] IN
    (/\ Resolved(tk)
     /\ Loaded(tk).source_lang # NULL /\ Loaded(tk).target_lang # NULL
     /\ Loaded(tk).source_lang # Loaded(tk).target_lang)
      => /\ tk.detected = Loaded(tk).target_lang => tk.dest = Loaded(tk).source_lang
         /\ tk.detected = Loaded(tk).source_lang => tk.dest = Loaded(tk).target_lang

\* The flip was taken: for source "es" / target "en", a message detected
\* "en" was translated to "es" and counted.
C2_Witness ==
  \E t \in Slots :
    /\ tasks[t].pc = "done" /\ tasks[t].logged # <<>>
    /\ Loaded(tasks[t]).source_lang = "es" /\ Loaded(tasks[t]).target_lang = "en"
    /\ tasks[t].detected = "en" /\ tasks[t].logged[1].language_to = "es"
    /\ users[tasks[t].from][1].free_used = Loaded(tasks[t]).free_used + 1

\* The detected language is a third language: non-empty, neither stored one.
Third(tk) ==
  /\ Resolved(tk)
  /\ tk.detected # ""
  /\ tk.detected # Loaded(tk).source_lang
  /\ tk.detected # Loaded(tk).target_lang

(* C3, as claimed: when the detected language is non-empty and equals neither *)
(* stored language, the destination is source_lang.                           *)
C3_ThirdGoesToSource ==
  \A t \in Slots : Third(tasks[t]) => tasks[t].dest = Loaded(tasks[t]).source_lang

(* C3, amended: when the detected language is non-empty and equals neither    *)
(* stored language, the destination is target_lang (in this build the         *)
(* language stored at the first question, the one the contact reads).         *)
C3_ThirdGoesToTarget ==
  \A t \in Slots : Third(tasks[t]) => tasks[t].dest = Loaded(tasks[t]).target_lang

\* A message detected as Portuguese for an es/en session was translated to "en".
C3_Witness ==
  \E t \in Slots :
    /\ Third(tasks[t]) /\ tasks[t].detected = "pt"
    /\ Loaded(tasks[t]).source_lang = "es" /\ Loaded(tasks[t]).target_lang = "en"
    /\ tasks[t].logged # <<>> /\ tasks[t].logged[1].language_to = "en"

(* C4: for every detected language and every session that passes the setup   *)
(* guard, the destination used for the translation and written to the         *)
(* translation record is one of the session's source_lang and target_lang,    *)
(* never null and never a third code.                                         *)
C4_DestIsStoredLanguage ==
  \A t \in Slots :
    LET tk == tasks[t] IN
    /\ Resolved(tk) => /\ tk.dest \in {Loaded(tk).source_lang, Loaded(tk).target_lang}
                       /\ tk.dest # NULL
    /\ tk.logged # <<>> =>
         /\ tk.logged[1].language_to = tk.dest
         /\ tk.logged[1].language_to \in {Loaded(tk).source_lang, Loaded(tk).target_lang}
         /\ tk.logged[1].language_to # NULL

\* A record was written for a voice note whose language neither the
\* transcription nor the detection gave.
C4_Witness ==
  \E t \in Slots :
    /\ tasks[t].logged # <<>> /\ tasks[t].media
    /\ tasks[t].logged[1].language_from = ""
    /\ tasks[t].logged[1].language_to = "en"

(* C5: when the detected language is empty or unknown (the detector's "und"), *)
(* the destination is target_lang.                                            *)
C5_UnknownGoesToTarget ==
  \A t \in Slots :
    (Resolved(tasks[t]) /\ tasks[t].detected \in {"", Slice2("und")})
      => tasks[t].dest = Loaded(tasks[t]).target_lang

\* A text detected as "und" was translated to target_lang.
C5_Witness ==
  \E t \in Slots :
    /\ tasks[t].logged # <<>> /\ tasks[t].detected = "un" /\ ~tasks[t].media
    /\ tasks[t].logged[1].language_to = Loaded(tasks[t]).target_lang


\* Task t takes a step.
Moved(t) == tasks'[t] # tasks[t]

\* Task t takes the full-reset step and its update is applied.
ResetApplied(t) == At(t, "reset") /\ Moved(t) /\ Called(tasks'[t], "update")

\* The row is the one a new session starts with: the first question, no
\* languages, no voice preference.
Initial(r) ==
  /\ r.language_step = "target"
  /\ r.source_lang = NULL /\ r.target_lang = NULL /\ r.voice_gender = NULL

(* C6: from any step of an existing session, paywalled or not, handling the   *)
(* reset keyword (trimmed, case-insensitive) leaves the session at the step a *)
(* new session starts in with source_lang, target_lang and voice_gender null; *)
(* a reset of a session that a reset has just written leaves it as it is.     *)
C6_ResetReinitialises ==
  [][\A t \in Slots :
       ResetApplied(t) =>
         LET c == tasks[t].from IN
         /\ users'[c] # <<>> /\ Initial(users'[c][1])
         /\ (Initial(users[c][1]) /\ users[c][1].free_used = 0) => users'[c] = users[c]
    ]_vars

\* " Reset " was handled for a paywalled READY session, and the row is the
\* initial one.
C6_Witness ==
  \E t \in Slots :
    /\ tasks[t].pc = "done" /\ tasks[t].text = "Reset"
    /\ tasks[t].trace = <<"select", "update", "send:welcome">>
    /\ Loaded(tasks[t]).language_step = "ready"
    /\ Loaded(tasks[t]).free_used = FREE_ALLOWANCE
    /\ Initial(users[tasks[t].from][1])

(* C7, as claimed: handling the reset keyword leaves free_used unchanged.     *)
C7_ResetKeepsUsage ==
  [][\A t \in Slots :
       ResetApplied(t) =>
         users'[tasks[t].from][1].free_used = users[tasks[t].from][1].free_used
    ]_vars

(* C7, amended: handling the reset keyword sets free_used to 0 (a fresh       *)
(* allowance) whatever it was before, and leaves the plan unchanged.          *)
C7_ResetClearsUsage ==
  [][\A t \in Slots :
       ResetApplied(t) =>
         /\ users'[tasks[t].from][1].free_used = 0
         /\ users'[tasks[t].from][1].plan = users[tasks[t].from][1].plan
    ]_vars

\* A reset was handled for a session that had used 3 free translations, and
\* the stored counter is 0.
C7_Witness ==
  \E t \in Slots :
    /\ tasks[t].pc = "done"
    /\ tasks[t].trace = <<"select", "update", "send:welcome">>
    /\ Route(tasks[t]) = "reset"
    /\ Loaded(tasks[t]).free_used = 3
    /\ users[tasks[t].from][1].free_used = 0

\* The calls of the translation pipeline and the usage and log writes.
PipelineCalls ==
  {"fetch", "fetch:non2xx", "writeFile", "toWav", "whisper", "whisper_failed",
   "whisper-1", "detect",
   "translate:user", "insert",
   "tts", "upload", "send:transcript", "send:translation", "send:audio"}

\* The task has started none of the calls of the pipeline.
NoPipeline(tk) ==
  /\ \A i \in 1..Len(tk.trace) : tk.trace[i] \notin PipelineCalls
  /\ tk.logged = <<>>

\* Task t takes the first-contact step for a contact without a row, and its
\* upsert is applied.
Created(t) ==
  /\ tasks[t].pc = "route" /\ tasks[t].user = <<>> /\ Moved(t)
  /\ users[tasks[t].from] = <<>>
  /\ Called(tasks'[t], "upsert")

(* C8: a message from a contact with no stored session, whatever its text or  *)
(* attachment, creates a session at the first question with null languages,   *)
(* is answered with the source-language menu (WELCOME_MSG) and causes no       *)
(* transcription, detection, translation, translation record or usage         *)
(* increment.                                                                 *)
C8_FirstContact ==
  /\ [](\A t \in Slots :
          (tasks[t].pc \in {"done", "error"} /\ tasks[t].user = <<>>) =>
            /\ NoPipeline(tasks[t])
            /\ ~Called(tasks[t], "update")
            /\ tasks[t].pc = "done" =>
                 tasks[t].trace \in {<<"select", "upsert", "send:welcome">>,
                                     <<"select", "upsert_lost", "send:welcome">>})
  /\ [][\A t \in Slots :
          Created(t) =>
            /\ users'[tasks[t].from] # <<>>
            /\ Initial(users'[tasks[t].from][1])
            /\ users'[tasks[t].from][1].free_used = 0
       ]_vars

\* A voice note from a contact without a row was answered with the menu, and
\* the row it created is the initial one.
C8_Witness ==
  \E t \in Slots :
    /\ tasks[t].pc = "done" /\ tasks[t].user = <<>>
    /\ tasks[t].num = 1 /\ tasks[t].media
    /\ tasks[t].trace = <<"select", "upsert", "send:welcome">>
    /\ users[tasks[t].from] # <<>> /\ Initial(users[tasks[t].from][1])

\* The task loaded a session at the second question and its text is a valid
\* menu choice equal to the language stored at the first question.
SameAsStored(tk) ==
  /\ tk.user # <<>>
  /\ Loaded(tk).language_step = "source"
  /\ lower(tk) \notin {"reset", "change language", "reset source"}
  /\ pickLang(tk.text) # NULL
  /\ pickLang(tk.text) = Loaded(tk).target_lang

(* C9: a session at the second language question (language_step "source")     *)
(* that receives a valid menu choice equal to the language stored at the      *)
(* first question (target_lang) keeps its step and every field, and the reply *)
(* is the must-differ warning with the menu.                                  *)
C9_SameLanguageRejected ==
  /\ [](\A t \in Slots :
          (tasks[t].pc \in {"done", "error"} /\ SameAsStored(tasks[t])) =>
            tasks[t].trace \in {<<"select", "send:menu_must_differ">>,
                                <<"select", "send:menu_must_differ", "throw">>})
  /\ [][\A t \in Slots :
          (tasks[t].pc = "route" /\ SameAsStored(tasks[t]) /\ Moved(t))
            => users' = users
       ]_vars

\* "1" (English) was answered with the warning by a session whose first
\* answer was "en", and the row is the one the task loaded.
C9_Witness ==
  \E t \in Slots :
    /\ tasks[t].pc = "done" /\ SameAsStored(tasks[t])
    /\ tasks[t].text = "1" /\ Loaded(tasks[t]).target_lang = "en"
    /\ tasks[t].trace = <<"select", "send:menu_must_differ">>
    /\ users[tasks[t].from] = tasks[t].user

\* The task loaded a session that lacks a language or the voice preference.
LoadedIncomplete(tk) ==
  /\ tk.user # <<>>
  /\ \/ Loaded(tk).source_lang = NULL
     \/ Loaded(tk).target_lang = NULL
     \/ Loaded(tk).voice_gender = NULL

\* The message is one the pipeline would translate: the session is past the
\* menu steps and not paywalled, the text is no reset command.
ForPipeline(tk) ==
  /\ Loaded(tk).language_step \notin {"target", "source", "gender"}
  /\ lower(tk) \notin {"reset", "change language", "reset source"}
  /\ ~(Loaded(tk).language_step = "ready" /\ Loaded(tk).free_used >= FREE_ALLOWANCE)

(* C10: handleIncoming never starts the download, transcription, detection or *)
(* translation of a user message for a session in which source_lang,          *)
(* target_lang or voice_gender is null, whatever the stored step; a message    *)
(* that would otherwise be translated gets the setup-incomplete reply, and     *)
(* causes no translation record and no write of the session.                  *)
C10_IncompleteNeverTranslated ==
  \A t \in Slots :
    LoadedIncomplete(tasks[t]) =>
      /\ NoPipeline(tasks[t])
      /\ (tasks[t].pc \in {"done", "error"} /\ ForPipeline(tasks[t])) =>
           tasks[t].trace \in {<<"select", "send:setup_incomplete">>,
                               <<"select", "send:setup_incomplete", "throw">>}

\* A voice note for a session at a tutorial stage whose target_lang is null
\* was answered with the setup-incomplete reply, and the row is unchanged.
C10_Witness ==
  \E t \in Slots :
    /\ tasks[t].pc = "done" /\ LoadedIncomplete(tasks[t])
    /\ Loaded(tasks[t]).language_step = "tutorial1"
    /\ Loaded(tasks[t]).target_lang = NULL
    /\ tasks[t].num = 1 /\ tasks[t].media
    /\ tasks[t].trace = <<"select", "send:setup_incomplete">>
    /\ users[tasks[t].from] = tasks[t].user


(* ------------------- replies, errors and acknowledgments ---------------- *)

\* handleIncoming has returned (pc "done") or rejected (pc "error") in tk.
Returned(tk) == tk.pc \in {"done", "error"}

\* The calls of sendMessage the handler makes ("send:audio_failed" is the send
\* of the audio that threw inside the try block).
Sends ==
  {"send:welcome", "send:source_menu", "send:pay_link", "send:pay_error",
   "send:paywall", "send:reply_1_5", "send:menu_reply_1_5", "send:menu_must_differ",
   "send:change_done", "send:reset_tips", "send:ready", "send:gender_prompt",
   "send:intro", "send:first_action", "send:gender_retry", "send:setup_incomplete",
   "send:text_or_voice", "send:transcript", "send:translation", "send:audio",
   "send:audio_failed", "send:tutorial"}

\* The task has started a send to its contact.
Attempted(tk) == \E i \in 1..Len(tk.trace) : tk.trace[i] \in Sends

(* C11: every inbound message that carries a sender results in at least one   *)
(* outbound reply attempt to that sender before its background task ends,     *)
(* whether processing succeeds or fails at any external call.                 *)
C11_AlwaysReplies ==
  \A t \in Slots : Returned(tasks[t]) => Attempted(tasks[t])

\* The generic "an error occurred, please try again" reply of the specification.
GenericError == "send:generic_error"

\* The calls of the task that completed: all of its trace, or, when a call
\* threw, the trace before that call.
Completed(tk) ==
  IF tk.pc = "error" THEN SubSeq(tk.trace, 1, Len(tk.trace) - 2) ELSE tk.trace

\* The outbound messages the task delivered, in their order.
Delivered(tk) ==
  SelectSeq(Completed(tk), LAMBDA e : e \in (Sends \cup {GenericError}) \ {"send:audio_failed"})

(* C12: when an error other than a synthesis failure aborts the processing of *)
(* a message, the contact receives exactly one generic error reply for it and *)
(* no other outbound message.                                                 *)
C12_OneGenericErrorReply ==
  \A t \in Slots : tasks[t].pc = "error" => Delivered(tasks[t]) = <<GenericError>>

\* The position of the first call e in the trace of tk (0: not called).
Pos(tk, e) ==
  IF Called(tk, e) THEN CHOOSE i \in 1..Len(tk.trace) :
                          /\ tk.trace[i] = e
                          /\ \A j \in 1..(i - 1) : tk.trace[j] # e
  ELSE 0

\* Every synthesis attempt failed (tts raised), or the upload of the audio failed.
NoAudio(tk) == Called(tk, "tts_failed") \/ Called(tk, "upload_failed")

\* The position in the trace of that failure.
NoAudioPos(tk) == IF Called(tk, "tts_failed") THEN Pos(tk, "tts_failed")
                  ELSE Pos(tk, "upload_failed")

(* C13: if tts raises or the audio upload fails for a voice message, the      *)
(* handler has delivered the transcript line and the translation line, sends  *)
(* no audio message, and is not aborted by the failure (what follows is the   *)
(* tutorial follow-up, if any); the translation record and the usage count of *)
(* the message are kept.                                                      *)
C13_SynthesisFailureKeepsText ==
  /\ [](\A t \in Slots :
          LET tk == tasks[t] IN
          NoAudio(tk) =>
            /\ 0 < Pos(tk, "send:transcript")
            /\ Pos(tk, "send:transcript") < Pos(tk, "send:translation")
            /\ Pos(tk, "send:translation") < NoAudioPos(tk)
            /\ ~Called(tk, "send:audio") /\ ~Called(tk, "send:audio_failed")
            /\ NoAudioPos(tk) < Len(tk.trace) => tk.trace[NoAudioPos(tk) + 1] # "throw"
            /\ tutorialFollow(Loaded(tk)) = "" =>
                 /\ tk.pc = "done"
                 /\ Delivered(tk) = <<"send:transcript", "send:translation">>
            /\ tk.logged # <<>>
            /\ Pos(tk, "insert") > 0 /\ Pos(tk, "insert") < Pos(tk, "send:transcript")
            /\ Counted(Loaded(tk)) => Called(tk, "update") \/ Called(tk, "update_lost"))
  /\ [][\A t \in Slots :
          (/\ At(t, "pipeline") /\ Counted(Loaded(tasks[t]))
           /\ NoAudio(tasks'[t]) /\ Called(tasks'[t], "update"))
            => users'[tasks[t].from][1].free_used = Loaded(tasks[t]).free_used + 1
       ]_vars

\* tts raised for a voice note to a READY session that had used 3 translations:
\* both text lines were delivered, the task returned, the counter is 4.
C13_Witness ==
  \E t \in Slots :
    /\ tasks[t].pc = "done" /\ tasks[t].media
    /\ tasks[t].trace = <<"select", "fetch", "writeFile", "toWav", "whisper", "unlink",
                          "translate:user", "update", "insert",
                          "send:transcript", "send:translation", "tts_failed">>
    /\ Loaded(tasks[t]).free_used = 3
    /\ users[tasks[t].from][1].free_used = 4

(* ------------------------- the synthesis fallback ----------------------- *)

TtsInit ==
  /\ users = [c \in Contacts |-> <<>>]
  /\ tasks = [t \in Slots |-> Idle]
  /\ msgs = 0
  /\ acks = 0
  /\ voiceCache = <<>>
  /\ calls = [k \in Callers |-> IF k = 0 THEN Preload ELSE NoCall]
  /\ hooks = [k \in Hooks |-> NoHook]

TtsNext ==
  \E k \in Callers :
    \/ tts(k)
    \/ loadVoices(k)
    \/ synth(k)

TtsSpec == TtsInit /\ [][TtsNext]_vars

\* Call k has made a synthesis attempt with name.
Tried(k, name) ==
  \E i \in 1..Len(calls[k].attempts) : calls[k].attempts[i].name = name

(* C14: tts makes its attempts in order, stopping at the first that yields    *)
(* audio; the fixed default voice is never attempted before the attempt with  *)
(* the language code alone has failed, and tts raises only after all attempts *)
(* (the language code alone and the fixed default voice among them) have been *)
(* made and failed, whatever the kind of each failure.                        *)
C14_FallbackChain ==
  \A k \in TtsCalls :
    LET c == calls[k] IN
    /\ c.pc = "raised" => Tried(k, c.lang) /\ Tried(k, DefaultVoice)
    /\ c.lang # "en" =>
         \A i \in 1..Len(c.attempts) :
           c.attempts[i].name = DefaultVoice =>
             \E j \in 1..(i - 1) : c.attempts[j].name = c.lang

(* ------------------------------ reply flow ------------------------------ *)

\* The content the task translated was taken from the text body of its
\* message (not transcribed from an attachment).
FromText(tk) == Resolved(tk) /\ ~(tk.num > 0 /\ tk.media)

\* The calls of the voice reply: the transcript line, synthesis, upload, audio.
VoiceReplyCalls ==
  {"send:transcript", "tts", "tts_failed", "upload", "upload_failed",
   "send:audio", "send:audio_failed"}

(* C15: every message whose translated content was taken from its text body   *)
(* gets a reply consisting of the translated text alone, with no synthesis    *)
(* call and no audio message, for every combination of media count and media  *)
(* URL in the webhook fields.                                                 *)
C15_TextGetsTextOnly ==
  \A t \in Slots :
    FromText(tasks[t]) =>
      \A i \in 1..Len(tasks[t].trace) : tasks[t].trace[i] \notin VoiceReplyCalls

\* The task handled a voice note for a READY session and sent the audio:
\* download, transcription, translation, synthesis and upload all succeeded.
VoiceNoteDone(tk) ==
  /\ tk.num > 0 /\ tk.media
  /\ tk.user # <<>> /\ Loaded(tk).language_step = "ready"
  /\ Called(tk, "send:audio")

(* C16: for a voice note sent to a READY session whose download,              *)
(* transcription, translation, synthesis and upload all succeed, exactly      *)
(* three outbound messages are sent, in this order: the transcript line, the  *)
(* translation line, then the audio, synthesized from the translation in the  *)
(* resolved destination language.                                             *)
C16_VoiceNoteReply ==
  \A t \in Slots :
    LET tk == tasks[t] IN
    VoiceNoteDone(tk) =>
      /\ tk.pc = "done"
      /\ Delivered(tk) = <<"send:transcript", "send:translation", "send:audio">>
      /\ tk.voiced = <<[text |-> tk.translated, lang |-> tk.dest,
                        gender |-> Loaded(tk).voice_gender]>>
      /\ tk.dest = Resolve(tk.detected, Loaded(tk))
      /\ Pos(tk, "send:translation") < Pos(tk, "tts")
      /\ Pos(tk, "tts") < Pos(tk, "upload") /\ Pos(tk, "upload") < Pos(tk, "send:audio")

\* A voice note in English for a READY es/en session got the transcript, the
\* translation and audio synthesized in Spanish.
C16_Witness ==
  \E t \in Slots :
    /\ VoiceNoteDone(tasks[t]) /\ tasks[t].pc = "done"
    /\ tasks[t].detected = "en" /\ tasks[t].dest = "es"
    /\ tasks[t].voiced # <<>> /\ tasks[t].voiced[1].lang = "es"
    /\ Delivered(tasks[t]) = <<"send:transcript", "send:translation", "send:audio">>

(* C17: the /webhook handler sends the empty acknowledgment exactly once per  *)
(* request, before handleIncoming performs any store access or outbound send  *)
(* for that request (the task it starts has made no call yet), and no later   *)
(* step of a task, whatever its outcome, sends or changes an acknowledgment;  *)
(* the replies are the sends of the tasks.                                    *)
C17_AckOncePerRequest ==
  /\ [](acks = msgs)
  /\ [][/\ acks' # acks =>
             /\ acks' = acks + 1 /\ msgs' = msgs + 1
             /\ users' = users
             /\ \A t \in Slots :
                  tasks'[t] # tasks[t] =>
                    /\ tasks[t].pc = "idle"
                    /\ tasks'[t].pc = "load" /\ tasks'[t].trace = <<>>
        /\ (\E t \in Slots : tasks[t].pc # "idle" /\ tasks'[t] # tasks[t])
             => acks' = acks
       ]_vars

\* Two requests were acknowledged, and the task of the second ended in an
\* error after the acknowledgment.
C17_Witness ==
  /\ acks = 2 /\ msgs = 2
  /\ \E t \in Slots : tasks[t].pc = "error"
  /\ \A t \in Slots : tasks[t].pc \in {"idle", "error"}

(* ------------------------------ menu steps ------------------------------ *)

\* The task loaded a session at a menu step and its text matches no option of
\* that menu: no menu digit, language code or language name at a language
\* question, no gender digit or keyword at the voice question (and is no
\* reset command).
Unmatched(tk) ==
  /\ tk.user # <<>>
  /\ \/ Loaded(tk).language_step \in {"target", "source"} /\ ToLower(tk.text) \in {"", "hola"}
     \/ Loaded(tk).language_step = "gender" /\ ToLower(tk.text) \in {"", "es", "hola"}

\* What the handler does for an unmatched input at each menu step, when no
\* call throws: the error line with the menu.
Reprompt(step) ==
  CASE step = "target" -> <<"select", "send:reply_1_5">>
    [] step = "source" -> <<"select", "send:menu_reply_1_5">>
    [] step = "gender" -> <<"select", "translate:prompt", "send:gender_retry">>

Walled(tk) ==
  /\ tk.user # <<>>
  /\ Loaded(tk).language_step = "ready"
  /\ Loaded(tk).plan = "FREE"
  /\ Loaded(tk).free_used >= FREE_ALLOWANCE
  /\ ToLower(tk.text) \notin {"reset", "change language", "reset source", "1", "2", "3"}

(* C19: for a READY session on the FREE plan whose usage counter has reached  *)
(* the free allowance, every inbound message other than a reset command or a  *)
(* plan-choice digit is answered with the fixed upsell message: no            *)
(* transcription, translation, translation record or usage increment occurs.  *)
C19_PaywallGates ==
  /\ [](\A t \in Slots :
          LET tk == tasks[t] IN
          (Returned(tk) /\ Walled(tk)) =>
            /\ NoPipeline(tk)
            /\ ~Called(tk, "update") /\ ~Called(tk, "update_lost")
            /\ tk.trace \in {<<"select", "send:paywall">>,
                             <<"select", "send:paywall", "throw">>})
  /\ [][\A t \in Slots :
          (tasks[t].pc = "route" /\ Walled(tasks[t]) /\ Moved(t)) => users' = users
       ]_vars

\* A voice note to a session that had used its 10 free translations was
\* answered with the upsell message, and the row is the one the task loaded.
C19_Witness ==
  \E t \in Slots :
    /\ tasks[t].pc = "done" /\ Walled(tasks[t])
    /\ tasks[t].num = 1 /\ tasks[t].media
    /\ Loaded(tasks[t]).free_used = 10
    /\ tasks[t].trace = <<"select", "send:paywall">>
    /\ users[tasks[t].from] = tasks[t].user

(* --------------------------- temporary files ---------------------------- *)

(* C20: when the handling of a voice message ends, whether normalization,     *)
(* transcription and detection succeed or any of them fails, none of the      *)
(* temporary files created for that message remains on disk.                  *)
C20_NoTempFilesLeft ==
  \A t \in Slots : Returned(tasks[t]) => tasks[t].files = {}

(* ------------------------- onboarding transitions ----------------------- *)

\* The prompts that ask the next onboarding question or announce the next
\* stage: the second language menu, the voice menu, the set-up-complete
\* messages and the confirmation of a changed language.
NextPrompts ==
  {"send:source_menu", "send:gender_prompt", "send:intro", "send:first_action",
   "send:change_done", "send:ready"}

\* The task answered an onboarding question (its row was loaded at a menu
\* step and its text is no reset command) and its write of the row failed.
WriteFailed(tk) ==
  /\ tk.user # <<>>
  /\ Loaded(tk).language_step \in {"target", "source", "gender"}
  /\ lower(tk) \notin {"reset", "change language", "reset source"}
  /\ Called(tk, "update_lost")

(* C21: if the session write of an onboarding transition fails, the contact   *)
(* is never sent the next step's prompt while the stored step is still the    *)
(* old one: the worst outcome of a failed write is that the same onboarding   *)
(* question is asked again.                                                   *)
C21_FailedWriteNeverAdvances ==
  \A t \in Slots :
    LET tk == tasks[t] IN
    (/\ WriteFailed(tk)
     /\ users[tk.from] # <<>>
     /\ users[tk.from][1].language_step = Loaded(tk).language_step)
      => \A i \in 1..Len(tk.trace) : tk.trace[i] \notin NextPrompts

(* ----------------------------- empty input ------------------------------ *)

\* The task loaded a session that passes the setup guard, and the message is
\* one that gets to it (no reset command, no menu step, not paywalled).
PassesGuard(tk) ==
  /\ tk.user # <<>>
  /\ ~LoadedIncomplete(tk)
  /\ ForPipeline(tk)

\* The transcription of the attachment of tk ended and what followed it (the
\* detection, when the transcription gave no language) did not throw.
Transcribed(tk) ==
  /\ tk.num > 0 /\ tk.media
  /\ Called(tk, "unlink")
  /\ (Pos(tk, "unlink") < Len(tk.trace) => tk.trace[Pos(tk, "unlink") + 1] # "throw")

\* The message has neither text nor a transcribable attachment: an empty body
\* without media, or an attachment whose transcript is empty.
NothingToTranslate(tk) ==
  \/ tk.text = "" /\ ~(tk.num > 0 /\ tk.media) /\ tk.pc # "route"
  \/ Transcribed(tk) /\ tk.original = ""

\* The calls of the task from the one at position n on.
From(tk, n) == SubSeq(tk.trace, n, Len(tk.trace))

(* C22: a message to a session that passes the setup guard and contains       *)
(* neither text nor a transcribable attachment (empty body and no media, or   *)
(* an attachment whose transcript is empty) is answered with the fixed "send  *)
(* text or a voice note" prompt, the only message sent for it, and the        *)
(* handler ends there; no translation is attempted, no record is inserted and *)
(* the handler writes neither the step nor the usage counter.                 *)
C22_EmptyInputPrompted ==
  /\ [](\A t \in Slots :
          LET tk == tasks[t] IN
          (PassesGuard(tk) /\ NothingToTranslate(tk)) =>
            /\ Returned(tk)
            /\ Called(tk, "send:text_or_voice")
            /\ From(tk, Pos(tk, "send:text_or_voice"))
                 \in {<<"send:text_or_voice">>, <<"send:text_or_voice", "throw">>}
            /\ \A i \in 1..Len(tk.trace) :
                 tk.trace[i] \in Sends => tk.trace[i] = "send:text_or_voice"
            /\ ~Resolved(tk) /\ tk.translated = ""
            /\ tk.logged = <<>> /\ ~Called(tk, "insert")
            /\ ~Called(tk, "update") /\ ~Called(tk, "update_lost"))
  /\ [][\A t \in Slots :
          (/\ tasks[t].pc = "route" /\ PassesGuard(tasks[t]) /\ Moved(t)
           /\ NothingToTranslate(tasks'[t]))
            => users' = users
       ]_vars

\* A voice note whose transcript is empty, sent to a session at the last
\* tutorial stage, was answered with the prompt; the row is the one loaded.
C22_Witness ==
  \E t \in Slots :
    /\ tasks[t].pc = "done" /\ PassesGuard(tasks[t])
    /\ Transcribed(tasks[t]) /\ tasks[t].original = ""
    /\ Loaded(tasks[t]).language_step = "tutorial3"
    /\ tasks[t].trace = <<"select", "fetch", "writeFile", "toWav", "whisper", "detect",
                          "unlink", "send:text_or_voice">>
    /\ users[tasks[t].from] = tasks[t].user

\* An empty body without media, sent to a READY session, was answered with
\* the prompt.
C22_WitnessText ==
  \E t \in Slots :
    /\ tasks[t].pc = "done" /\ PassesGuard(tasks[t])
    /\ tasks[t].text = "" /\ tasks[t].num = 0
    /\ Loaded(tasks[t]).language_step = "ready"
    /\ tasks[t].trace = <<"select", "send:text_or_voice">>

(* ---------------------------- write, then reply ------------------------- *)

\* The writes of the users table a task issues, applied or not.
Writes == {"update", "update_lost", "upsert", "upsert_lost"}

\* The write of the task is a write of the session's step: every write but
\* the usage counter of a READY session (which leaves the step as it is).
WritesStep(tk) ==
  ~(/\ tk.user # <<>>
    /\ Loaded(tk).language_step = "ready"
    /\ lower(tk) \notin {"reset", "change language", "reset source"})

(* C23: for every message that changes the session's step (each onboarding    *)
(* answer, reset, "reset source", and each tutorial sub-stage advance), the   *)
(* session write is issued and completed before any reply for that message is *)
(* sent to the contact.                                                       *)
C23_WriteBeforeReply ==
  \A t \in Slots :
    LET tk == tasks[t] IN
    WritesStep(tk) =>
      \A i \in 1..Len(tk.trace) :
        tk.trace[i] \in Writes => \A j \in 1..(i - 1) : tk.trace[j] \notin Sends

(* --------------------------- order of the steps ------------------------- *)

\* The position of a step in the order of onboarding.
StepIndex(step) ==
  CASE step = "target"    -> 1
    [] step = "source"    -> 2
    [] step = "gender"    -> 3
    [] step = "tutorial1" -> 4
    [] step = "tutorial2" -> 5
    [] step = "tutorial3" -> 6
    [] step = "ready"     -> 7

\* Task t handles its message with no other message of the contact handled
\* meanwhile: it takes its branch with the row it loaded still the stored one.
OneAtATime(t) ==
  /\ tasks[t].pc = "route" /\ Moved(t)
  /\ tasks[t].user = users[tasks[t].from]
  /\ users[tasks[t].from] # <<>>

(* C24, as claimed: when a contact's messages are handled one at a time, no    *)
(* single message advances the session by more than one step of the order     *)
(* first language question, second language question, voice preference,       *)
(* tutorial sub-stages, READY.                                                *)
C24_AtMostOneStep ==
  [][\A t \in Slots :
       OneAtATime(t) =>
         StepIndex(users'[tasks[t].from][1].language_step)
           <= StepIndex(users[tasks[t].from][1].language_step) + 1
    ]_vars

(* C24, amended: when a contact's messages are handled one at a time, a        *)
(* message advances the session by at most one step of that order, except     *)
(* that the answer to the second language question goes directly to READY for *)
(* a session that already holds a voice preference and the language of the    *)
(* first question (the re-entry after "reset source", which skips the voice    *)
(* question and the tutorial). Each field the full reset clears is set only   *)
(* by the answer to its own question, and READY is written only from the last *)
(* tutorial stage or by that re-entry, with both languages and the voice      *)
(* preference set: after a full reset READY is not reached again before all   *)
(* three questions have been answered.                                        *)
C24_OrderedAdvance ==
  [][\A t \in Slots :
       OneAtATime(t) =>
         LET old == users[tasks[t].from][1]
             new == users'[tasks[t].from][1]
         IN  /\ \/ StepIndex(new.language_step) <= StepIndex(old.language_step) + 1
                \/ /\ old.language_step = "source" /\ new.language_step = "ready"
                   /\ old.voice_gender # NULL /\ old.target_lang # NULL
             /\ (new.target_lang # old.target_lang /\ new.target_lang # NULL)
                  => old.language_step = "target" /\ new.language_step = "source"
             /\ (new.source_lang # old.source_lang /\ new.source_lang # NULL)
                  => old.language_step = "source" /\ new.language_step \in {"gender", "ready"}
             /\ (new.voice_gender # old.voice_gender /\ new.voice_gender # NULL)
                  => old.language_step = "gender" /\ new.language_step = "tutorial1"
             /\ (new.language_step = "ready" /\ old.language_step # "ready")
                  => /\ old.language_step \in {"tutorial3", "source"}
                     /\ new.source_lang # NULL /\ new.target_lang # NULL
                     /\ new.voice_gender # NULL
    ]_vars

\* The answer "1" to the voice question moved a session from the voice
\* question to the first tutorial stage, one step on.
C24_WitnessOneStep ==
  \E t \in Slots :
    /\ tasks[t].pc = "done" /\ tasks[t].text = "1" /\ tasks[t].user # <<>>
    /\ Loaded(tasks[t]).language_step = "gender"
    /\ Called(tasks[t], "update")
    /\ users[tasks[t].from][1].language_step = "tutorial1"
    /\ users[tasks[t].from][1].voice_gender = "MALE"

\* The re-entry: "ES" answered the second question of a session that has a
\* voice preference and the first language, and the session is READY.
C24_Witness ==
  \E t \in Slots :
    /\ tasks[t].pc = "done" /\ tasks[t].text = "ES" /\ tasks[t].user # <<>>
    /\ Loaded(tasks[t]) = Row("source", NULL, "en", "MALE", 3)
    /\ Called(tasks[t], "update")
    /\ users[tasks[t].from][1] = Row("ready", "es", "en", "MALE", 3)

(* ----------------------------- transcription ---------------------------- *)

\* The positions of the trace of tk at which event e was started.
Positions(tk, e) == {i \in 1..Len(tk.trace) : tk.trace[i] = e}

\* The transcription requests of the task: to the primary model (answered or
\* failed) and to the secondary model.
Primary(tk)   == Positions(tk, "whisper") \cup Positions(tk, "whisper_failed")
Secondary(tk) == Positions(tk, "whisper-1")

\* Both transcription requests of the task failed: whisper threw.
BothFailed(tk) ==
  \E i \in Secondary(tk) :
    /\ i + 2 <= Len(tk.trace)
    /\ tk.trace[i + 1] = "unlink" /\ tk.trace[i + 2] = "throw"

(* C25: whisper calls the primary model first; the secondary model is called  *)
(* exactly once if and only if the primary call fails, so a message causes at *)
(* most two transcription requests; if both fail the error propagates and no  *)
(* detection, translation, record or usage increment happens for the message. *)
C25_WhisperFallback ==
  /\ [](\A t \in Slots :
          LET tk == tasks[t] IN
          /\ Cardinality(Primary(tk)) <= 1
          /\ Cardinality(Primary(tk) \cup Secondary(tk)) <= 2
          /\ (tk.num > 0 /\ tk.media /\ Called(tk, "unlink")) =>
               /\ Cardinality(Primary(tk)) = 1
               /\ (Cardinality(Secondary(tk)) = 1) = Called(tk, "whisper_failed")
               /\ \A i \in Secondary(tk) : i > 1 /\ tk.trace[i - 1] = "whisper_failed"
          /\ BothFailed(tk) =>
               /\ tk.pc = "error"
               /\ ~Called(tk, "detect") /\ ~Resolved(tk)
               /\ tk.logged = <<>> /\ ~Called(tk, "insert")
               /\ ~Called(tk, "update") /\ ~Called(tk, "update_lost")
               /\ \A i \in 1..Len(tk.trace) : tk.trace[i] \notin Sends)
  /\ [][\A t \in Slots : (Moved(t) /\ BothFailed(tasks'[t])) => users' = users]_vars

\* The primary model failed for a voice note to a READY session, the secondary
\* model transcribed it, and the message was translated and counted.
C25_Witness ==
  \E t \in Slots :
    /\ tasks[t].pc = "done" /\ tasks[t].media /\ Len(tasks[t].trace) >= 8
    /\ SubSeq(tasks[t].trace, 1, 8)
         = <<"select", "fetch", "writeFile", "toWav", "whisper_failed", "whisper-1",
             "unlink", "translate:user">>
    /\ tasks[t].logged # <<>>
    /\ users[tasks[t].from][1].free_used = Loaded(tasks[t]).free_used + 1

\* Both models failed for a voice note: the handler rejected after two requests.
C25_WitnessBothFailed ==
  \E t \in Slots :
    /\ tasks[t].pc = "error" /\ BothFailed(tasks[t])
    /\ tasks[t].trace = <<"select", "fetch", "writeFile", "toWav", "whisper_failed",
                          "whisper-1", "unlink", "throw">>
    /\ users[tasks[t].from] = tasks[t].user

(* --------------------------- language detection ------------------------- *)

\* The message of the task is handled as a voice message (num > 0 && mediaUrl).
HasAudio(tk) == tk.num > 0 /\ tk.media

\* The detection was called, and returned, before the destination was resolved.
DetectedFirst(tk) ==
  /\ 0 < Pos(tk, "detect")
  /\ Pos(tk, "detect") < Pos(tk, "translate:user")
  /\ tk.trace[Pos(tk, "detect") + 1] # "throw"

(* C26: the destination language is never resolved from a silently empty      *)
(* detected language: whenever the transcription returns no language code,    *)
(* language detection is invoked on the transcript before the destination is  *)
(* resolved, and for a text message detection is always invoked on its text;  *)
(* detection is not invoked when the transcription supplied a language code.  *)
C26_DetectionWhenNeeded ==
  \A t \in Slots :
    LET tk == tasks[t] IN
    /\ Resolved(tk) =>
         /\ tk.detected = "" => DetectedFirst(tk)
         /\ (HasAudio(tk) /\ tk.lang = "") => DetectedFirst(tk)
         /\ ~HasAudio(tk) => DetectedFirst(tk) /\ tk.original = tk.text
         /\ Cardinality(Positions(tk, "detect")) <= 1
    /\ (HasAudio(tk) /\ tk.lang # "") =>
         /\ ~Called(tk, "detect")
         /\ tk.detected = tk.lang

\* A voice note whose transcription gave no language was translated after the
\* detection gave "es".
C26_Witness ==
  \E t \in Slots :
    /\ tasks[t].pc = "done" /\ HasAudio(tasks[t]) /\ Resolved(tasks[t])
    /\ tasks[t].lang = "" /\ tasks[t].detected = "es"
    /\ DetectedFirst(tasks[t])

\* A voice note whose transcription gave the language "en" was translated
\* without a detection.
C26_WitnessNoDetection ==
  \E t \in Slots :
    /\ tasks[t].pc = "done" /\ HasAudio(tasks[t]) /\ Resolved(tasks[t])
    /\ tasks[t].lang = "en" /\ tasks[t].detected = "en"
    /\ ~Called(tasks[t], "detect")

(* ------------------------------- download ------------------------------- *)

\* The download requests of the task, whatever the response.
Downloads(tk) == Positions(tk, "fetch") \cup Positions(tk, "fetch:non2xx")

\* The download of the attachment failed: the response had a non-2xx status,
\* or the request threw (network failure).
DownloadFailed(tk) ==
  \/ Called(tk, "fetch:non2xx")
  \/ Called(tk, "fetch") /\ tk.trace[Pos(tk, "fetch") + 1] = "throw"

(* C27: the attachment download is attempted exactly once per voice message,  *)
(* and a non-2xx HTTP status or network failure makes it fail: processing of  *)
(* that message aborts before any temporary file is written and before the    *)
(* transcoder or a transcription model is invoked on the response body.       *)
C27_DownloadFailureAborts ==
  \A t \in Slots :
    LET tk == tasks[t] IN
    /\ Cardinality(Downloads(tk)) <= 1
    /\ (HasAudio(tk) /\ Returned(tk) /\ PassesGuard(tk)) => Cardinality(Downloads(tk)) = 1
    /\ DownloadFailed(tk) =>
         /\ tk.pc = "error"
         /\ ~Called(tk, "writeFile") /\ tk.files = {}
         /\ ~Called(tk, "toWav")
         /\ Primary(tk) \cup Secondary(tk) = {}

(* ------------------------------ translation ----------------------------- *)

\* translate() of the message gave no translation: the response was malformed
\* (the call threw) or its content was empty.
NoTranslation(tk) == Resolved(tk) /\ tk.translated = ""

(* C28: if the translation service returns an empty or malformed response,    *)
(* translate fails and the message is aborted: no translation record is       *)
(* written, the usage counter is not incremented, and no reply containing an  *)
(* empty translation is sent; the translation call is made once and not       *)
(* retried.                                                                   *)
C28_EmptyTranslationAborts ==
  \A t \in Slots :
    LET tk == tasks[t] IN
    /\ Cardinality(Positions(tk, "translate:user")) <= 1
    /\ NoTranslation(tk) =>
         /\ tk.pc = "error"
         /\ From(tk, Pos(tk, "translate:user")) = <<"translate:user", "throw">>
         /\ tk.logged = <<>> /\ ~Called(tk, "insert")
         /\ ~Called(tk, "update") /\ ~Called(tk, "update_lost")
         /\ ~Called(tk, "send:translation")

(* ------------------------- the translation record ----------------------- *)

\* translate() returned in the task: a translation of its message was produced.
Translated(tk) ==
  /\ Resolved(tk)
  /\ Pos(tk, "translate:user") < Len(tk.trace)
  /\ tk.trace[Pos(tk, "translate:user") + 1] # "throw"

C29_WitnessNoRecord ==
  \E t \in Slots :
    /\ tasks[t].pc = "done" /\ tasks[t].trace = <<"select", "send:paywall">>
    /\ tasks[t].logged = <<>>

(* --------------------------- the voice catalog -------------------------- *)

\* The callers of loadVoices whose catalog fetch is in flight.
Fetching == {k \in Callers : calls[k].pc = "loadVoices"}

(* C30: voice catalog loading is idempotent and single-flight: for any        *)
(* interleaving of callers (the start-up preload and the pickVoice calls of   *)
(* overlapping messages), at most one catalog fetch is in flight at a time   *)
(* (a second one is started only after the previous one failed), and once the *)
(* cache is populated it is never fetched again or replaced.                  *)
C30_SingleFlightLoad ==
  /\ [](Cardinality(Fetching) <= 1)
  /\ [](voiceCache # <<>> => Fetching = {})
  /\ [][voiceCache # <<>> => voiceCache' = voiceCache]_vars

(* ---------------------------- choice of a voice ------------------------- *)

\* The quality tier of a voice name: 3 Neural2, 2 WaveNet, 1 Standard, 0 none.
Tier(name) ==
  IF Includes(name, "Neural2") THEN 3
  ELSE IF Includes(name, "WaveNet") THEN 2
  ELSE IF Includes(name, "Standard") THEN 1
  ELSE 0

\* The catalog voices of lang, and those of them with the requested gender
\* (all of them when none has it).
VoicesOf(cache, lang) == {Listed(cache, lang)[i] : i \in 1..Len(Listed(cache, lang))}
OfGender(cache, lang, gender) ==
  LET g == {v \in VoicesOf(cache, lang) : v.ssmlGender = gender}
  IN  IF g # {} THEN g ELSE VoicesOf(cache, lang)

\* The candidates of the code: for "en" the American voices among them, when
\* there is one.
Candidates(cache, lang, gender) ==
  LET us == {v \in OfGender(cache, lang, gender) : StartsWithEnUS(v.name)}
  IN  IF lang = "en" /\ us # {} THEN us ELSE OfGender(cache, lang, gender)

\* name is a voice of the highest tier present in the set of voices cands
\* (nothing is required when cands holds no voice of a tier).
BestOf(cands, name) ==
  (\E v \in cands : Tier(v.name) > 0) =>
    /\ \E v \in cands : v.name = name
    /\ \A v \in cands : Tier(v.name) <= Tier(name)

\* Call k gets the result of pickVoice in this step: its first synthesis
\* attempt is made with it.
Picks(k) == calls[k].attempts = <<>> /\ calls'[k].attempts # <<>>

(* C31, as claimed: pickVoice(lang, gender) chooses from the catalog voices of *)
(* lang that have the requested gender, or from all voices of lang when none  *)
(* has that gender, and returns a voice of the highest tier present in that   *)
(* candidate list in the order Neural2 > WaveNet > Standard.                  *)
C31_BestTierOfGender ==
  [][\A k \in TtsCalls :
       Picks(k) =>
         BestOf(OfGender(voiceCache'[1], calls'[k].lang, calls'[k].gender),
                calls'[k].attempts[1].name)
    ]_vars

(* C31, amended: pickVoice(lang, gender) chooses from the catalog voices of    *)
(* lang that have the requested gender, or from all voices of lang when none  *)
(* has that gender; for "en" the list is narrowed to the voices whose name     *)
(* starts with "en-US" when there is one, whatever their tier. It returns a   *)
(* voice of the highest tier present in that list (Neural2 > WaveNet >        *)
(* Standard), a voice of the wrong gender only when no voice of the requested *)
(* gender exists for lang, and the fixed default voice when the list holds no *)
(* voice of a tier.                                                           *)
C31_BestTierOfCandidates ==
  [][\A k \in TtsCalls :
       Picks(k) =>
         LET cache == voiceCache'[1]
             lang  == calls'[k].lang
             gender == calls'[k].gender
             name  == calls'[k].attempts[1].name
             cands == Candidates(cache, lang, gender)
         IN  /\ BestOf(cands, name)
             /\ (\E v \in cands : Tier(v.name) > 0) =>
                  \A v \in VoicesOf(cache, lang) :
                    (v.name = name /\ v.ssmlGender # gender) =>
                      \A w \in VoicesOf(cache, lang) : w.ssmlGender # gender
             /\ (\A v \in cands : Tier(v.name) = 0) => name = DefaultVoice
    ]_vars

\* tts("en", "FEMALE") with the full catalog loaded: the first attempt is the
\* American standard voice, although the catalog has a British Neural2 voice
\* of that gender.
C31_Witness ==
  \E k \in TtsCalls :
    /\ voiceCache # <<>> /\ "en" \in DOMAIN voiceCache[1] /\ Len(voiceCache[1]["en"]) = 3
    /\ calls[k].lang = "en" /\ calls[k].gender = "FEMALE"
    /\ calls[k].attempts # <<>>
    /\ calls[k].attempts[1].name = "en-US-Standard-C"

\* tts("es", "MALE") with the full catalog loaded: the first attempt is the
\* WaveNet voice, the best male one (the Neural2 voice is female).
C31_WitnessTier ==
  \E k \in TtsCalls :
    /\ voiceCache # <<>> /\ "es" \in DOMAIN voiceCache[1] /\ Len(voiceCache[1]["es"]) = 3
    /\ calls[k].lang = "es" /\ calls[k].gender = "MALE"
    /\ calls[k].attempts # <<>>
    /\ calls[k].attempts[1].name = "es-US-WaveNet-B"

(* ---------------------------- the catalog index ------------------------- *)

\* The first two letters of a locale code, and its language subtag (the part
\* before the first hyphen), on the locale codes of the model.
TwoLetters(full) ==
  CASE full \in {"es-ES", "es-US"} -> "es"
    [] full \in {"en-GB", "en-US"} -> "en"
    [] full = "fil-PH" -> "fi"

Subtag(full) ==
  CASE full \in {"es-ES", "es-US"} -> "es"
    [] full \in {"en-GB", "en-US"} -> "en"
    [] full = "fil-PH" -> "fil"

\* The locale codes of a catalog.
Locales(voices) ==
  UNION {{voices[i].languageCodes[j] : j \in 1..Len(voices[i].languageCodes)}
           : i \in 1..Len(voices)}

\* The voices of a catalog, in catalog order, that have a locale code whose
\* first two letters are (whose language subtag is) key.
WithTwoLetters(voices, key) ==
  SelectSeq(voices, LAMBDA v :
    \E j \in 1..Len(v.languageCodes) : TwoLetters(v.languageCodes[j]) = key)
WithSubtag(voices, key) ==
  SelectSeq(voices, LAMBDA v :
    \E j \in 1..Len(v.languageCodes) : Subtag(v.languageCodes[j]) = key)

\* The catalog indexed by the first two letters (by the language subtag) of
\* the locale codes.
ByTwoLetters(voices) ==
  [key \in {TwoLetters(l) : l \in Locales(voices)} |-> WithTwoLetters(voices, key)]
BySubtag(voices) ==
  [key \in {Subtag(l) : l \in Locales(voices)} |-> WithSubtag(voices, key)]

\* The language codes a session can hold.
SessionCodes == {MENU[d].code : d \in DIGITS}

LoadedBeforeReset(t) ==
  /\ tasks[t].pc = "route" /\ Moved(t)
  /\ tasks[t].user # <<>>
  /\ users[tasks[t].from] # <<>>
  /\ Initial(users[tasks[t].from][1])
  /\ tasks[t].user # users[tasks[t].from]
  /\ lower(tasks[t]) \notin {"reset", "change language", "reset source"}

(* C33: a persisted full reset is never undone by a task that loaded the       *)
(* session before the reset: when a reset for a contact overlaps another       *)
(* in-flight message of the same contact, no in-flight task writes a later    *)
(* step (tutorial stage or READY) or a language field over the reset state.   *)
C33_ResetNotUndone ==
  [][\A t \in Slots :
       LoadedBeforeReset(t) => Initial(users'[tasks[t].from][1])
    ]_vars

(* ----------------------------- usage counter ---------------------------- *)

\* Task t produces a translation for a READY session on the free plan (as
\* loaded and as stored) and its write of the usage counter is applied.
CountedTranslation(t) ==
  /\ tasks[t].pc = "route" /\ Moved(t)
  /\ tasks[t].user # <<>> /\ Counted(Loaded(tasks[t]))
  /\ users[tasks[t].from] # <<>> /\ Counted(users[tasks[t].from][1])
  /\ tasks'[t].logged # <<>>
  /\ Called(tasks'[t], "update")

(* C34: for a FREE-plan contact at READY, free_used equals the number of       *)
(* translations produced for that contact while READY and FREE since the      *)
(* counter was last set to zero, also when several of the contact's messages  *)
(* are processed by overlapping tasks: every such translation raises the      *)
(* stored counter by one.                                                     *)
C34_EveryTranslationCounted ==
  [][\A t \in Slots :
       CountedTranslation(t) =>
         users'[tasks[t].from][1].free_used = users[tasks[t].from][1].free_used + 1
    ]_vars

(* ------------------------ languages past the menus ---------------------- *)

\* A session that has left the two language questions has target_lang, and
\* one past the voice question has both languages, distinct.
LanguagesSet(r) ==
  /\ r.language_step \in {"gender", "tutorial1", "tutorial2", "tutorial3", "ready"}
       => r.target_lang # NULL
  /\ r.language_step \in {"tutorial1", "tutorial2", "tutorial3", "ready"}
       => /\ r.source_lang # NULL /\ r.target_lang # NULL
          /\ r.source_lang # r.target_lang

(* C35: when messages are handled one at a time, a session that has left the   *)
(* two language questions has non-null target_lang, and one past the voice    *)
(* step has non-null, distinct source_lang and target_lang: no message,       *)
(* "reset" and "reset source" at any step included, leads from a session of    *)
(* which this is true to one that is beyond the language questions with a     *)
(* language missing.                                                          *)
C35_LanguagesSetPastMenus ==
  [][\A t \in Slots :
       (OneAtATime(t) /\ LanguagesSet(users[tasks[t].from][1]))
         => LanguagesSet(users'[tasks[t].from][1])
    ]_vars

(* ------------------------- the first-contact write ---------------------- *)

\* Task t takes the first-contact step (it loaded no row) while the contact
\* has a session.
CreatesOverSession(t) ==
  /\ tasks[t].pc = "route" /\ tasks[t].user = <<>> /\ Moved(t)
  /\ users[tasks[t].from] # <<>>

(* C36: the first-contact default write (initial step, plan FREE, usage        *)
(* counter 0) is applied only when the contact has no session: it never       *)
(* overwrites the step, plan or usage counter of a session that already       *)
(* exists, including when two first messages of a contact overlap or when the *)
(* session load fails for an existing contact.                                *)
C36_DefaultWriteOnlyWithoutSession ==
  [][\A t \in Slots :
       CreatesOverSession(t) =>
         LET old == users[tasks[t].from][1]
             new == users'[tasks[t].from][1]
         IN  /\ new.language_step = old.language_step
             /\ new.plan = old.plan
             /\ new.free_used = old.free_used
    ]_vars

(* ----------------------------- reset source ----------------------------- *)

\* The task loaded a row and its message is the "reset source" command.
ResetSourceCommand(tk) == tk.user # <<>> /\ lower(tk) = "reset source"

\* The traces of the "reset source" branch: the update, the two translations
\* of the prompt, the send of the menu; a throw ends the task.
ResetSourceTraces ==
  LET full(u) == <<"select", u, "translate:prompt", "translate:prompt", "send:source_menu">>
  IN  UNION {{full(u)} \cup {SubSeq(full(u), 1, n) \o <<"throw">> : n \in 3..5}
               : u \in {"update", "update_lost"}}

(* C37: the "reset source" command (trimmed, case-insensitive exact match)    *)
(* sets source_lang to null and the step to the source-language question and  *)
(* changes nothing else: target_lang, voice preference, plan and usage        *)
(* counter are unchanged, and no translation of a user message, translation   *)
(* record or usage increment occurs for it.                                   *)
C37_ResetSourceOnly ==
  /\ [](\A t \in Slots :
          (Returned(tasks[t]) /\ ResetSourceCommand(tasks[t])) =>
            /\ NoPipeline(tasks[t])
            /\ tasks[t].trace \in ResetSourceTraces)
  /\ [][\A t \in Slots :
          (tasks[t].pc = "route" /\ Moved(t) /\ ResetSourceCommand(tasks[t])) =>
            LET old == users[tasks[t].from][1]
                new == users'[tasks[t].from][1]
            IN  /\ new.target_lang = old.target_lang
                /\ new.voice_gender = old.voice_gender
                /\ new.plan = old.plan
                /\ new.free_used = old.free_used
                /\ IF Called(tasks'[t], "update")
                   THEN new.source_lang = NULL /\ new.language_step = "source"
                   ELSE new = old
       ]_vars

\* A READY session with three translations counted sent " Reset Source ": the
\* menu was sent, and the row is at the source question with its target
\* language, voice preference and counter.
C37_Witness ==
  \E t \in Slots :
    /\ tasks[t].pc = "done" /\ ResetSourceCommand(tasks[t])
    /\ Loaded(tasks[t]) = Row("ready", "es", "en", "MALE", 3)
    /\ Called(tasks[t], "update") /\ Called(tasks[t], "send:source_menu")
    /\ users[tasks[t].from] = <<Row("source", NULL, "en", "MALE", 3)>>

(* ----------------------------- two contacts ----------------------------- *)

\* Two senders: the contact of the engine, and a second one.
Other == "whatsapp:+2"
Pair == Contacts \cup {Other}

\* The rows of the second contact: none, or a READY session that differs from
\* every row of the first contact.
OtherRows == {<<>>, <<Row("ready", "es", "en", "FEMALE", 5)>>}

PairInit ==
  /\ users \in {[c \in Pair |-> IF c = Other THEN o ELSE r] :
                  r \in StoredRows, o \in OtherRows}
  /\ tasks = [t \in Slots |-> Idle]
  /\ msgs = 0
  /\ acks = 0
  /\ voiceCache = <<>>
  /\ calls = [k \in Callers |-> IF k = 0 THEN Preload ELSE NoCall]
  /\ hooks = [k \in Hooks |-> NoHook]

\* The engine with messages of both contacts in flight.
PairSpec == PairInit /\ [][Next]_vars

(* C38: handling a message from contact A never changes the session fields or *)
(* translation records of any other contact B and never sends an outbound     *)
(* message to B: every session read and write of handleIncoming is keyed by    *)
(* the sender of the message being handled, for every interleaving of tasks of *)
(* different contacts.                                                         *)
C38_OtherContactsUntouched ==
  [][\A t \in Slots :
       (tasks[t].pc \in {"load", "route"} /\ Moved(t)) =>
         /\ tasks'[t].from = tasks[t].from
         /\ tasks[t].pc = "load" => tasks'[t].user \in {<<>>, users[tasks[t].from]}
         /\ tasks'[t].logged # <<>> => tasks'[t].logged[1].phone_number = tasks[t].from
         /\ \A b \in DOMAIN users \ {tasks[t].from} :
              /\ users'[b] = users[b]
              /\ \A s \in Slots : tasks[s].from = b => tasks'[s] = tasks[s]
    ]_vars

\* The second contact's message was loaded, then a message of the first
\* contact was handled and wrote the first contact's row: the second
\* contact's row is the one its task loaded.
C38_Witness ==
  \E t, s \in Slots :
    /\ tasks[t].from = "whatsapp:+1" /\ tasks[s].from = Other
    /\ tasks[t].pc = "done" /\ Called(tasks[t], "update")
    /\ tasks[t].user # users[tasks[t].from]
    /\ tasks[s].pc = "route" /\ tasks[s].user # <<>>
    /\ users[Other] = tasks[s].user

(* --------------------------- the payment webhook ------------------------ *)

\* The sessions the payment webhook finds: none, a READY session on the FREE
\* plan with its allowance used up, a READY session on the monthly plan.
PayRows ==
  {<<>>, <<Row("ready", "es", "en", "MALE", 10)>>,
   <<[Row("ready", "es", "en", "MALE", 4) EXCEPT !.plan = "MONTHLY"]>>}

PayInit ==
  /\ users \in [Pair -> PayRows]
  /\ tasks = [t \in Slots |-> Idle]
  /\ msgs = 0
  /\ acks = 0
  /\ voiceCache = <<>>
  /\ calls = [k \in Callers |-> IF k = 0 THEN Preload ELSE NoCall]
  /\ hooks = [k \in Hooks |-> NoHook]

PayNext ==
  \E k \in Hooks :
    \/ verify(k)
    \/ checkoutCompleted(k)
    \/ subscriptionDeleted(k)
    \/ received(k)

PaySpec == PayInit /\ [][PayNext]_vars

\* The plan or the usage counter of some session changes in the step.
BillingChanged ==
  \E c \in DOMAIN users :
    \/ (users[c] = <<>>) # (users'[c] = <<>>)
    \/ /\ users[c] # <<>> /\ users'[c] # <<>>
       /\ \/ users'[c][1].plan # users[c][1].plan
          \/ users'[c][1].free_used # users[c][1].free_used

(* C39: a payment-webhook call whose signature fails verification is answered *)
(* with status 400 and changes no session's plan or usage counter; plan and   *)
(* usage counter are changed by the payment webhook only after the signature  *)
(* has been verified.                                                         *)
C39_UnverifiedChangesNothing ==
  /\ [](\A k \in Hooks :
          (hooks[k].pc # "idle" /\ ~hooks[k].signed) =>
            hooks[k].pc = "done" /\ hooks[k].status = 400)
  /\ [][\A k \in Hooks :
          (hooks'[k] # hooks[k] /\ ~hooks'[k].signed) => ~BillingChanged
       ]_vars
  /\ [][BillingChanged =>
          \E k \in Hooks :
            /\ hooks[k].pc = "verified" /\ hooks[k].signed
            /\ hooks'[k] # hooks[k]
       ]_vars

\* One call failed verification and was answered 400; another, verified, put
\* the first contact on the annual plan with the counter at 0.
C39_Witness ==
  \E j, k \in Hooks :
    /\ hooks[j].pc = "done" /\ ~hooks[j].signed /\ hooks[j].status = 400
    /\ hooks[k].pc = "done" /\ hooks[k].signed /\ hooks[k].status = 200
    /\ users["whatsapp:+1"] # <<>>
    /\ users["whatsapp:+1"][1].plan = "ANNUAL"
    /\ users["whatsapp:+1"][1].free_used = 0

====
